---- MODULE Spec2Model ----
(***************************************************************************)
(* Model of the media poster: the fan-out dispatcher postToAllPlatforms,   *)
(* its platform adapters, the scheduled_posts table and the scheduler      *)
(* loop that replays due posts through the dispatcher.                     *)
(*                                                                         *)
(* JavaScript runs one macrotask at a time: everything between two awaits  *)
(* on real I/O is atomic.  Each action below is one macrotask: a timer     *)
(* callback, an HTTP handler, or the completion of one network call,       *)
(* together with every continuation it wakes up, run until the code        *)
(* suspends on I/O again or returns.                                       *)
(***************************************************************************)
EXTENDS Integers, Sequences, FiniteSets, TLC

----------------------------------------------------------------------------
\* Bounds of the model.

\* longest platform list handed to the dispatcher on its own
MaxPlatforms == 2
\* upload requests to POST /api/scheduled, hence post ids
MaxPosts == 2
\* activations of runSchedulerTick that may be suspended at the same time
MaxTicks == 2
\* last second of the wall clock
MaxNow == 2

----------------------------------------------------------------------------
\* Values.

\* A platform entry is a string.  NotAString stands for a JSON value that is
\* no string (the number 42): JSON.parse in the schedule route lets one in.
NotAString == "<42>"

IsString(p) == p # NotAString

\* What the dispatcher receives instead of an array when the stored platforms
\* JSON is not an array (JSON.parse("5")): a value without a map method.
NotAnArray == <<"<not an array>">>

IsArray(v) == v # NotAnArray

KnownPlatforms == {"facebook", "telegram", "tiktok", "instagram", "youtube"}

PlatformValues ==
    {"facebook", "Telegram", "tiktok", "instagram", "youtube", "unknownplat", NotAString}

\* String.prototype.toLowerCase on the names above.
ToLowerCase(p) ==
    CASE p = "Telegram" -> "telegram"
      [] p = "FACEBOOK" -> "facebook"
      [] OTHER -> p

\* A MIME type "type/subtype".
Mime(t, s) == [type |-> t, subtype |-> s]

isVideo(mimetype) == mimetype.type = "video"

isImage(mimetype) == mimetype.type = "image"

\* A file as multer or processScheduledPost describes it.  A path is
\* [req, k, ext]: the upload request, the position in it, the extension.
File(p, m) == [path |-> p, mimetype |-> m]

Path(r, k, e) == [req |-> r, k |-> k, ext |-> e]

\* PlatformResult.  postId stands for postId / messageId / publishId.
NoResult == [success |-> FALSE, platform |-> "", error |-> "", postId |-> ""]

Failure(p, msg) == [success |-> FALSE, platform |-> p, error |-> msg, postId |-> ""]

Success(p, id) == [success |-> TRUE, platform |-> p, error |-> "", postId |-> id]

\* A promise of one adapter invocation.  io tells what the network call in
\* flight can end in: "ok" (the service may accept or refuse), "nofile" (the
\* media file was missing when the stream was opened: it can only fail).
Fulfilled(v) == [state |-> "fulfilled", value |-> v, io |-> "none"]

Rejected(msg) == [state |-> "rejected", value |-> Failure("", msg), io |-> "none"]

Pending(p, io) == [state |-> "pending", value |-> Failure(p, ""), io |-> io]

\* userSettings.<key>: undefined and '' are both falsy, and the adapters only
\* test truthiness, so a missing key reads as "".
Get(userSettings, key) ==
    IF key \in DOMAIN userSettings THEN userSettings[key] ELSE ""

AllExist(files, dsk) == \A i \in 1..Len(files) : files[i].path \in dsk

----------------------------------------------------------------------------
\* Platform adapters, up to their first network call.

postToFacebook(files, mediaType, userSettings, dsk) ==
    IF Get(userSettings, "facebook_page_id") = ""
       \/ Get(userSettings, "facebook_access_token") = ""
    THEN Fulfilled(Failure("facebook", "Facebook credentials not configured"))
    ELSE IF mediaType = "video" \/ Len(files) = 1
         THEN Pending("facebook", IF files[1].path \in dsk THEN "ok" ELSE "nofile")
         ELSE Pending("facebook", IF AllExist(files, dsk) THEN "ok" ELSE "nofile")

\* Mutation of postToTelegram: it also wants the Facebook page to be set.
postToTelegramNeedsFacebook(files, mediaType, userSettings, dsk) ==
    IF Get(userSettings, "telegram_bot_token") = ""
       \/ Get(userSettings, "telegram_chat_id") = ""
       \/ Get(userSettings, "facebook_page_id") = ""
    THEN Fulfilled(Failure("telegram", "Telegram credentials not configured"))
    ELSE IF mediaType = "video" \/ Len(files) = 1
         THEN Pending("telegram", IF files[1].path \in dsk THEN "ok" ELSE "nofile")
         ELSE Pending("telegram", IF AllExist(files, dsk) THEN "ok" ELSE "nofile")

postToTelegram(files, mediaType, userSettings, dsk) ==
    IF Get(userSettings, "telegram_bot_token") = ""
       \/ Get(userSettings, "telegram_chat_id") = ""
    THEN Fulfilled(Failure("telegram", "Telegram credentials not configured"))
    ELSE IF mediaType = "video" \/ Len(files) = 1
         THEN Pending("telegram", IF files[1].path \in dsk THEN "ok" ELSE "nofile")
         ELSE Pending("telegram", IF AllExist(files, dsk) THEN "ok" ELSE "nofile")

\* Mutation of postToTikTok: without the test of the media kind.
postToTikTokAnyMedia(files, mediaType, userSettings, dsk) ==
    IF Get(userSettings, "tiktok_access_token") = ""
       \/ Get(userSettings, "tiktok_open_id") = ""
    THEN Fulfilled(Failure("tiktok", "TikTok credentials not configured"))
    ELSE IF files[1].path \notin dsk
         THEN Fulfilled(Failure("tiktok", "ENOENT: no such file or directory"))
         ELSE Pending("tiktok", "ok")

postToTikTok(files, mediaType, userSettings, dsk) ==
    IF mediaType # "video"
    THEN Fulfilled(Failure("tiktok", "TikTok only supports video uploads"))
    ELSE IF Get(userSettings, "tiktok_access_token") = ""
            \/ Get(userSettings, "tiktok_open_id") = ""
         THEN Fulfilled(Failure("tiktok", "TikTok credentials not configured"))
         ELSE IF files[1].path \notin dsk
              THEN Fulfilled(Failure("tiktok", "ENOENT: no such file or directory"))
              ELSE Pending("tiktok", "ok")

\* postToInstagram: it sends the public URL of each file and opens none of
\* them; publicUrl is process.env.PUBLIC_URL ("" when unset).
postToInstagram(files, mediaType, userSettings, publicUrl) ==
    IF Get(userSettings, "instagram_account_id") = ""
       \/ Get(userSettings, "instagram_access_token") = ""
    THEN Fulfilled(Failure("instagram", "Instagram credentials not configured"))
    ELSE IF publicUrl = ""
         THEN Fulfilled(Failure("instagram",
                "Instagram requires PUBLIC_URL environment variable to be set. "
                \o "Set it to your server's public URL (e.g., https://your-app.railway.app) "
                \o "or use ngrok for local testing."))
         ELSE Pending("instagram", "ok")

\* What the network call of an adapter can settle with.
IoOutcomes(promise) ==
    LET p == promise.value.platform
    IN  IF promise.io = "ok"
        THEN {Success(p, "id"), Failure(p, "Request failed")}
        ELSE {Failure(p, "ENOENT: no such file or directory")}

----------------------------------------------------------------------------
\* The dispatcher.

\* Mutation of PostingPromise: the switch has no default branch, so the
\* callback returns undefined for an unrecognised name.
PostingPromiseNoDefault(platform, files, mediaType, userSettings, dsk) ==
    IF ~IsString(platform)
    THEN Rejected("platform.toLowerCase is not a function")
    ELSE CASE ToLowerCase(platform) = "facebook" ->
                postToFacebook(files, mediaType, userSettings, dsk)
           [] ToLowerCase(platform) = "telegram" ->
                postToTelegram(files, mediaType, userSettings, dsk)
           [] ToLowerCase(platform) = "tiktok" ->
                postToTikTok(files, mediaType, userSettings, dsk)
           [] ToLowerCase(platform) = "instagram" ->
                Fulfilled(Failure("instagram", "Instagram integration coming soon"))
           [] ToLowerCase(platform) = "youtube" ->
                Fulfilled(Failure("youtube", "YouTube integration coming soon"))
           [] OTHER -> Fulfilled(NoResult)

\* The async callback of platforms.map, run up to its first suspension.
PostingPromise(platform, files, mediaType, userSettings, dsk) ==
    IF ~IsString(platform)
    THEN Rejected("platform.toLowerCase is not a function")
    ELSE CASE ToLowerCase(platform) = "facebook" ->
                postToFacebook(files, mediaType, userSettings, dsk)
           [] ToLowerCase(platform) = "telegram" ->
                postToTelegram(files, mediaType, userSettings, dsk)
           [] ToLowerCase(platform) = "tiktok" ->
                postToTikTok(files, mediaType, userSettings, dsk)
           [] ToLowerCase(platform) = "instagram" ->
                Fulfilled(Failure("instagram", "Instagram integration coming soon"))
           [] ToLowerCase(platform) = "youtube" ->
                Fulfilled(Failure("youtube", "YouTube integration coming soon"))
           [] OTHER -> Fulfilled(Failure(platform, "Unknown platform: " \o platform))

IsSettled(promise) == promise.state # "pending"

\* The slots whose callback returned without suspending, ascending: their
\* promises settle in this order.
RECURSIVE SettledFrom(_, _)
SettledFrom(promises, i) ==
    IF i > Len(promises) THEN <<>>
    ELSE (IF IsSettled(promises[i]) THEN <<i>> ELSE <<>>) \o SettledFrom(promises, i + 1)

\* A call of postToAllPlatforms suspended at Promise.allSettled: the platform
\* list, one promise per slot, and the slots in the order they settled.
NoCall == [platforms |-> <<>>, promises |-> <<>>, order |-> <<>>]

\* postToAllPlatforms up to `await Promise.allSettled`: [threw, error, call].
postToAllPlatformsStart(platforms, files, userSettings, dsk) ==
    IF files = <<>>
    THEN [threw |-> TRUE, call |-> NoCall,
          error |-> "Cannot read properties of undefined (reading 'mimetype')"]
    ELSE IF ~IsArray(platforms)
    THEN [threw |-> TRUE, call |-> NoCall, error |-> "platforms.map is not a function"]
    ELSE LET mediaType == IF isVideo(files[1].mimetype) THEN "video" ELSE "photo"
             promises == [i \in 1..Len(platforms) |->
                            PostingPromise(platforms[i], files, mediaType, userSettings, dsk)]
         IN  [threw |-> FALSE, error |-> "",
              call |-> [platforms |-> platforms,
                        promises |-> promises,
                        order |-> SettledFrom(promises, 1)]]

AllSettled(call) == \A i \in 1..Len(call.promises) : IsSettled(call.promises[i])

\* The network call of slot i completes with outcome v.
SettleSlot(call, i, v) ==
    [call EXCEPT !.promises[i] = Fulfilled(v), !.order = @ \o <<i>>]

\* What the forEach over postResults pushes for one settled promise.
SlotResult(call, i) ==
    IF call.promises[i].state = "fulfilled"
    THEN call.promises[i].value
    ELSE Failure(call.platforms[i],
                 IF call.promises[i].value.error # ""
                 THEN call.promises[i].value.error ELSE "Unknown error")

\* Mutation of PostResults: results are pushed as the promises settle.
PostResultsInSettleOrder(call) ==
    [k \in 1..Len(call.order) |-> SlotResult(call, call.order[k])]

\* The results array built after Promise.allSettled.
PostResults(call) ==
    [i \in 1..Len(call.promises) |-> SlotResult(call, i)]

\* Mutation of postToAllPlatformsEnd: Promise.all, which rejects with the
\* first rejection.
postToAllPlatformsEndFailFast(call) ==
    IF \E i \in 1..Len(call.promises) : call.promises[i].state = "rejected"
    THEN [state |-> "rejected", results |-> <<>>]
    ELSE [state |-> "resolved", results |-> PostResults(call)]

\* How the promise returned by postToAllPlatforms settles once every slot has.
postToAllPlatformsEnd(call) ==
    [state |-> "resolved", results |-> PostResults(call)]

----------------------------------------------------------------------------
\* Time.  An instant is [year, sec]: a calendar year and the seconds elapsed
\* since 09:59:58 on 5 November of that year (so the clock crosses the
\* minute and the hour at sec = 2).  Text is a sequence of character codes.

Instant(y, n) == [year |-> y, sec |-> n]

\* a <= b in time.
AtOrBefore(a, b) == a.year < b.year \/ (a.year = b.year /\ a.sec <= b.sec)

SecondOf(d) == (58 + d.sec) % 60

MinuteOf(d) == (59 + (58 + d.sec) \div 60) % 60

HourOf(d) == 9 + (59 + (58 + d.sec) \div 60) \div 60

Chr(c) == CASE c = "-" -> 45 [] c = " " -> 32 [] c = ":" -> 58 [] OTHER -> 0

Digit(n) == 48 + n

\* String(n) for n >= 0.
RECURSIVE Decimal(_)
Decimal(n) == IF n < 10 THEN <<Digit(n)>> ELSE Decimal(n \div 10) \o <<Digit(n % 10)>>

\* String(n).padStart(w, '0').
RECURSIVE PadStart(_, _)
PadStart(str, w) == IF Len(str) >= w THEN str ELSE PadStart(<<Digit(0)>> \o str, w)

\* The text the schedule route stores: year (as many digits as it has), then
\* month, day, hour, minute and second padded to two digits.
localDateStr(d) ==
    Decimal(d.year) \o <<Chr("-")>> \o PadStart(Decimal(11), 2) \o <<Chr("-")>>
    \o PadStart(Decimal(5), 2) \o <<Chr(" ")>> \o PadStart(Decimal(HourOf(d)), 2)
    \o <<Chr(":")>> \o PadStart(Decimal(MinuteOf(d)), 2)
    \o <<Chr(":")>> \o PadStart(Decimal(SecondOf(d)), 2)

\* SQLite datetime('now', 'localtime'): %Y-%m-%d %H:%M:%S with a 4-digit year.
SqlDatetimeNow(d) ==
    PadStart(Decimal(d.year), 4) \o <<Chr("-")>> \o PadStart(Decimal(11), 2) \o <<Chr("-")>>
    \o PadStart(Decimal(5), 2) \o <<Chr(" ")>> \o PadStart(Decimal(HourOf(d)), 2)
    \o <<Chr(":")>> \o PadStart(Decimal(MinuteOf(d)), 2)
    \o <<Chr(":")>> \o PadStart(Decimal(SecondOf(d)), 2)

\* a <= b as SQLite compares two TEXT values (memcmp, the shorter first).
RECURSIVE TextLE(_, _)
TextLE(a, b) ==
    IF a = <<>> THEN TRUE
    ELSE IF b = <<>> THEN FALSE
    ELSE IF Head(a) # Head(b) THEN Head(a) < Head(b)
    ELSE TextLE(Tail(a), Tail(b))

----------------------------------------------------------------------------
\* State.

VARIABLES
    schedulerTimer,     \* scheduler.js: the interval handle, "null" or "armed"
    intervals,          \* the interval timers setInterval made and nothing cleared
    scheduled_posts,    \* the scheduled_posts table: id -> row
    user_settings,      \* the user_settings table: user -> platform -> fields
    disk,               \* the media files on disk
    now,                \* the local wall clock, in seconds
    nextId,             \* upload requests received by POST /api/scheduled
    ticks,              \* the suspended activations of runSchedulerTick
    trace,              \* what the last macrotask did (observation only)
    disp                \* a call of postToAllPlatforms made on its own

vars == <<schedulerTimer, intervals, scheduled_posts, user_settings, disk, now, nextId, ticks,
          trace, disp>>

schedVars ==
    <<schedulerTimer, intervals, scheduled_posts, user_settings, now, nextId, ticks, trace>>

----------------------------------------------------------------------------
\* The dispatcher on its own: every platform list, media and credentials.

CredKeys ==
    {"facebook_page_id", "facebook_access_token", "telegram_bot_token",
     "telegram_chat_id", "tiktok_access_token", "tiktok_open_id"}

\* A flat userSettings object in which exactly the keys of S hold a value.
FlatSettings(S) == [k \in CredKeys |-> IF k \in S THEN "secret" ELSE ""]

SettingsChoices ==
    {FlatSettings(CredKeys),
     FlatSettings({}),
     FlatSettings({"facebook_page_id", "facebook_access_token", "telegram_bot_token"})}

PlatformLists ==
    UNION {[1..n -> PlatformValues] : n \in 0..MaxPlatforms} \cup {NotAnArray}

\* Files as multer describes them for POST /api/post (upload request 0).
Jpg0 == File(Path(0, 1, ".jpg"), Mime("image", "jpeg"))

Png0 == File(Path(0, 2, ".png"), Mime("image", "png"))

Mp40 == File(Path(0, 1, ".mp4"), Mime("video", "mp4"))

FileChoices == {<<>>, <<Jpg0>>, <<Jpg0, Png0>>, <<Mp40>>}

Idle == [phase |-> "idle", platforms |-> <<>>, files |-> <<>>, settings |-> <<>>,
         call |-> NoCall,
         out |-> [state |-> "none", results |-> <<>>]]

InitDispatch ==
    /\ schedulerTimer = "null"
    /\ intervals = 0
    /\ scheduled_posts = <<>>
    /\ user_settings = <<>>
    /\ disk = {Jpg0.path, Png0.path, Mp40.path}
    /\ now = 0
    /\ nextId = 0
    /\ ticks = <<>>
    /\ trace = <<>>
    /\ disp = Idle

\* A caller invokes postToAllPlatforms; it runs up to Promise.allSettled, and
\* through it when no adapter had to wait for the network.
DispatchInvoke ==
    /\ disp.phase = "idle"
    /\ \E platforms \in PlatformLists, files \in FileChoices, us \in SettingsChoices :
          LET r == postToAllPlatformsStart(platforms, files, us, disk)
          IN  disp' = [phase |-> IF ~r.threw /\ ~AllSettled(r.call) THEN "waiting" ELSE "done",
                       platforms |-> platforms,
                       files |-> files,
                       settings |-> us,
                       call |-> r.call,
                       out |-> IF r.threw THEN [state |-> "rejected", results |-> <<>>]
                               ELSE IF AllSettled(r.call) THEN postToAllPlatformsEnd(r.call)
                               ELSE [state |-> "none", results |-> <<>>]]
    /\ UNCHANGED <<schedVars, disk>>

\* The network call of one adapter completes; the last one to do so resumes
\* postToAllPlatforms.
DispatchSettle ==
    /\ disp.phase = "waiting"
    /\ \E i \in 1..Len(disp.call.promises) :
          /\ disp.call.promises[i].state = "pending"
          /\ \E v \in IoOutcomes(disp.call.promises[i]) :
                LET c == SettleSlot(disp.call, i, v)
                IN  disp' = IF AllSettled(c)
                            THEN [disp EXCEPT !.phase = "done", !.call = c,
                                              !.out = postToAllPlatformsEnd(c)]
                            ELSE [disp EXCEPT !.call = c]
    /\ UNCHANGED <<schedVars, disk>>

NextDispatch == DispatchInvoke \/ DispatchSettle

SpecDispatch == InitDispatch /\ [][NextDispatch]_vars

\* A finished call on a request of the shape the routes hand over: a list of
\* platform entries and at least one file.
DispatchDone ==
    disp.phase = "done" /\ IsArray(disp.platforms) /\ disp.files # <<>>

----------------------------------------------------------------------------
\* The scheduled_posts table.

Ids == 1..MaxPosts

Users == {"u1", "u2"}

\* The result column: null, the results array, or {error: message}.
NullPayload == [kind |-> "null", results |-> <<>>, error |-> ""]

ResultsPayload(results) == [kind |-> "results", results |-> results, error |-> ""]

ErrorPayload(msg) == [kind |-> "error", results |-> <<>>, error |-> msg]

\* An observation of the last macrotask.
Ev(e, id, a, b) == [ev |-> e, id |-> id, from |-> a, to |-> b]

Happened(tr, e) == \E k \in 1..Len(tr) : tr[k].ev = e

\* The sequences that list every element of the set S once.
Orderings(S) ==
    {q \in [1..Cardinality(S) -> S] : \A i, j \in 1..Cardinality(S) : i # j => q[i] # q[j]}

\* The row as getPending hands it to the scheduler.
PostOf(st, id) ==
    [id |-> id, user_id |-> st[id].user_id, platforms |-> st[id].platforms,
     media_paths |-> st[id].media_paths, scheduled_at |-> st[id].scheduled_at]

\* WHERE status = 'pending' AND scheduled_at <= datetime('now', 'localtime').
IsDue(row, clock) ==
    row.status = "pending" /\ TextLE(row.scheduled_at, SqlDatetimeNow(clock))

\* Mutation of getPending: WHERE status = 'pending' alone.
getPendingIgnoresTime(st, clock) ==
    LET due == {id \in DOMAIN st : st[id].status = "pending"}
    IN  {[k \in 1..Cardinality(due) |-> PostOf(st, q[k])] : q \in Orderings(due)}

\* ScheduledPostModel.getPending: every order ORDER BY scheduled_at ASC allows
\* (rows with equal scheduled_at come in an order SQLite does not promise).
getPending(st, clock) ==
    LET due == {id \in DOMAIN st : IsDue(st[id], clock)}
    IN  {[k \in 1..Cardinality(due) |-> PostOf(st, q[k])] :
            q \in {o \in Orderings(due) :
                     \A i, j \in 1..Cardinality(due) :
                        i < j => TextLE(st[o[i]].scheduled_at, st[o[j]].scheduled_at)}}

\* ScheduledPostModel.findById: the row, or undefined.
findById(st, id) == IF id \in DOMAIN st THEN <<st[id]>> ELSE <<>>

\* ScheduledPostModel.getAllForUser: the ids of the rows of one user.
getAllPostsForUser(st, userId) == {id \in DOMAIN st : st[id].user_id = userId}

\* ScheduledPostModel.updateStatus when the database executes the UPDATE:
\* it changes no row when the id is gone.
updateStatusApplied(m, id, status, result) ==
    IF id \in DOMAIN m.store
    THEN [store |-> [m.store EXCEPT ![id].status = status, ![id].result = result],
          threw |-> FALSE,
          trace |-> Append(m.trace, Ev("write", id, m.store[id].status, status))]
    ELSE [store |-> m.store, threw |-> FALSE,
          trace |-> Append(m.trace, Ev("write", id, "absent", status))]

\* ScheduledPostModel.updateStatus when the database call throws.
updateStatusThrew(m, id, status) ==
    [store |-> m.store, threw |-> TRUE,
     trace |-> Append(m.trace, Ev("updateStatusThrew", id, "", status))]

\* ScheduledPostModel.updateStatus: what one call can end in.
updateStatus(m, id, status, result) ==
    {updateStatusApplied(m, id, status, result), updateStatusThrew(m, id, status)}

----------------------------------------------------------------------------
\* The user_settings table and what processScheduledPost makes of it.

\* SettingsModel.getAllForUser: platform -> settings object.
getAllForUser(table, userId) ==
    IF userId \in DOMAIN table THEN table[userId] ELSE <<>>

\* The forEach loops that build userSettings[`${platform}_${key}`].
FlattenSettings(allSettings) ==
    LET pairs == UNION {{<<p, k>> : k \in DOMAIN allSettings[p]} : p \in DOMAIN allSettings}
    IN  [key \in {x[1] \o "_" \o x[2] : x \in pairs} |->
            LET pk == CHOOSE x \in pairs : x[1] \o "_" \o x[2] = key
            IN  allSettings[pk[1]][pk[2]]]

\* getMimeType: the extension table of scheduler.js.
getMimeType(filePath) ==
    CASE ToLowerCase(filePath.ext) = ".jpg" -> Mime("image", "jpeg")
      [] ToLowerCase(filePath.ext) = ".jpeg" -> Mime("image", "jpeg")
      [] ToLowerCase(filePath.ext) = ".png" -> Mime("image", "png")
      [] ToLowerCase(filePath.ext) = ".gif" -> Mime("image", "gif")
      [] ToLowerCase(filePath.ext) = ".webp" -> Mime("image", "webp")
      [] ToLowerCase(filePath.ext) = ".mp4" -> Mime("video", "mp4")
      [] ToLowerCase(filePath.ext) = ".mov" -> Mime("video", "quicktime")
      [] ToLowerCase(filePath.ext) = ".avi" -> Mime("video", "x-msvideo")
      [] ToLowerCase(filePath.ext) = ".webm" -> Mime("video", "webm")
      [] OTHER -> Mime("application", "octet-stream")

----------------------------------------------------------------------------
\* The scheduler.  The operators below thread m = [store, trace] through the
\* code.  A database call may throw wherever it is made, so each operator
\* yields the set of ways the code can go, each with what became of the call.

Returned(w, post, threw) ==
    [store |-> w.store,
     trace |-> Append(w.trace,
                      Ev(IF threw THEN "processThrew" ELSE "processReturned", post.id, "", "")),
     blocked |-> FALSE, threw |-> threw, call |-> NoCall]

\* Mutation of ProcessCatch: the failed status is written without the error.
ProcessCatchNoPayload(m, post, message) ==
    {Returned(w, post, w.threw) :
        w \in updateStatus(m, post.id, "failed", NullPayload)}

\* The catch block of processScheduledPost.
ProcessCatch(m, post, message) ==
    {Returned(w, post, w.threw) :
        w \in updateStatus(m, post.id, "failed", ErrorPayload(message))}

\* allSuccess ? 'completed' : 'partial'.
StatusOf(results) ==
    IF \A i \in 1..Len(results) : results[i].success THEN "completed" ELSE "partial"

\* processScheduledPost from the point postToAllPlatforms settles.
ProcessFinish(m, post, out) ==
    IF out.state = "rejected"
    THEN ProcessCatch(m, post, "dispatch failed")
    ELSE UNION {IF w.threw
                THEN ProcessCatch([store |-> w.store, trace |-> w.trace], post,
                                  "database error")
                ELSE {Returned(w, post, FALSE)} :
                    w \in updateStatus(m, post.id, StatusOf(out.results),
                                       ResultsPayload(out.results))}

\* processScheduledPost from SettingsModel.getAllForUser (when it returns)
\* to `await postToAllPlatforms`, and through it when no adapter had to wait
\* for the network.
ProcessDispatch(m, post, settings, dsk) ==
    LET userSettings == FlattenSettings(getAllForUser(settings, post.user_id))
        files == [i \in 1..Len(post.media_paths) |->
                    File(post.media_paths[i], getMimeType(post.media_paths[i]))]
        r == postToAllPlatformsStart(post.platforms, files, userSettings, dsk)
        m2 == [store |-> IF post.id \in DOMAIN m.store
                         THEN [m.store EXCEPT ![post.id].dispatches = @ + 1]
                         ELSE m.store,
               trace |-> Append(m.trace, Ev("dispatch", post.id, "", ""))]
    IN  IF r.threw
        THEN ProcessCatch([m2 EXCEPT !.trace = Append(@, Ev("dispatchThrew", post.id, "", ""))],
                          post, r.error)
        ELSE IF AllSettled(r.call)
        THEN ProcessFinish(m2, post, postToAllPlatformsEnd(r.call))
        ELSE {[store |-> m2.store, trace |-> m2.trace, blocked |-> TRUE,
               threw |-> FALSE, call |-> r.call]}

\* processScheduledPost from its first line.
ProcessStart(m, post, settings, dsk) ==
    UNION {LET m1 == [store |-> w.store, trace |-> w.trace]
           IN  IF w.threw
               THEN ProcessCatch(m1, post, "database error")
               ELSE ProcessCatch([m1 EXCEPT !.trace =
                                     Append(@, Ev("getAllForUserThrew", post.id, "", ""))],
                                 post, "database error")
                    \cup ProcessDispatch(m1, post, settings, dsk) :
               w \in updateStatus(m, post.id, "processing", NullPayload)}

\* An activation of runSchedulerTick suspended in processScheduledPost of
\* posts[idx], which waits for call.
Tick(posts, idx, call) == [posts |-> posts, idx |-> idx, call |-> call]

NoTick == Tick(<<>>, 0, NoCall)

\* Mutation of TickCatch: runSchedulerTick has no try/catch, the rejection
\* is unhandled and ends the process.
TickCatchRethrows(m, n) ==
    [store |-> m.store, trace |-> Append(m.trace, Ev("unhandledRejection", n, "", "")),
     suspended |-> FALSE, tick |-> NoTick, exited |-> TRUE]

\* The catch block of runSchedulerTick: the error is logged, the tick ends.
\* n is the number of posts of the list the loop had not reached yet.
TickCatch(m, n) ==
    [store |-> m.store, trace |-> Append(m.trace, Ev("tickError", n, "", "")),
     suspended |-> FALSE, tick |-> NoTick, exited |-> FALSE]

\* The for loop of runSchedulerTick from posts[idx] on, and what it does
\* with an outcome r of processScheduledPost(posts[idx]).
RECURSIVE TickLoop(_, _, _, _, _)
RECURSIVE TickAfter(_, _, _, _, _)
TickLoop(m, posts, idx, settings, dsk) ==
    IF idx > Len(posts)
    THEN {[store |-> m.store,
           trace |-> Append(m.trace, Ev("tickEnd", Len(posts), "", "")),
           suspended |-> FALSE, tick |-> NoTick, exited |-> FALSE]}
    ELSE UNION {TickAfter(r, posts, idx, settings, dsk) :
                    r \in ProcessStart(m, posts[idx], settings, dsk)}

TickAfter(r, posts, idx, settings, dsk) ==
    IF r.blocked
    THEN {[store |-> r.store, trace |-> r.trace, suspended |-> TRUE,
           tick |-> Tick(posts, idx, r.call), exited |-> FALSE]}
    ELSE IF r.threw
    THEN {TickCatch([store |-> r.store, trace |-> r.trace], Len(posts) - idx)}
    ELSE TickLoop([store |-> r.store, trace |-> r.trace], posts, idx + 1, settings, dsk)

\* runSchedulerTick when getPending throws.
runSchedulerTickQueryFails(m) ==
    TickCatch([store |-> m.store,
               trace |-> Append(m.trace, Ev("getPendingThrew", 0, "", ""))], 0)

\* runSchedulerTick from its call to its first suspension: getPending
\* throws, or returns the due posts in one of the orders it may.
runSchedulerTick(m, clock, settings, dsk) ==
    {runSchedulerTickQueryFails(m)}
    \cup UNION {TickLoop([store |-> m.store,
                          trace |-> Append(m.trace, Ev("tickBegin", Len(posts), "", ""))],
                         posts, 1, settings, dsk) :
                    posts \in getPending(m.store, clock)}

\* A suspended tick resumes: postToAllPlatforms settles for posts[idx].
TickResume(m, t, settings, dsk) ==
    UNION {TickAfter(r, t.posts, t.idx, settings, dsk) :
              r \in ProcessFinish(m, t.posts[t.idx], postToAllPlatformsEnd(t.call))}

----------------------------------------------------------------------------
\* The routes of /api/scheduled.

\* The platforms field of the form: absent or empty, or a text that
\* JSON.parse turns into value, or a text it throws on.
PlatformsField(given, parses, value) == [given |-> given, parses |-> parses, value |-> value]

\* The scheduledAt field: absent, or a text new Date() cannot read, or an
\* instant.
ScheduledAtField(given, valid, at) == [given |-> given, valid |-> valid, at |-> at]

Clock(n) == Instant(2026, n)

\* The status code POST /api/scheduled answers with.
ScheduleStatus(files, platforms, scheduledAt, clock, dbFails) ==
    IF files = <<>> THEN "400"
    ELSE IF ~platforms.given THEN "400"
    ELSE IF ~scheduledAt.given THEN "400"
    ELSE IF ~scheduledAt.valid THEN "400"
    ELSE IF AtOrBefore(scheduledAt.at, clock) THEN "400"
    ELSE IF ~platforms.parses THEN "500"
    ELSE IF dbFails THEN "500"
    ELSE "201"

\* The row ScheduledPostModel.create inserts.  requested_for and dispatches
\* are not columns: they remember the instant the text in scheduled_at was
\* made from, and how often postToAllPlatforms was called for the row.
NewRow(user, files, platforms, scheduledAt) ==
    [user_id |-> user,
     platforms |-> platforms.value,
     media_paths |-> [i \in 1..Len(files) |-> files[i].path],
     scheduled_at |-> localDateStr(scheduledAt.at),
     requested_for |-> scheduledAt.at,
     dispatches |-> 0,
     status |-> "pending",
     result |-> NullPayload]

\* POST /api/scheduled: multer has stored the files, then the handler runs.
ScheduleRoute(user, files, platforms, scheduledAt, dbFails) ==
    LET id == nextId + 1
        code == ScheduleStatus(files, platforms, scheduledAt, Clock(now), dbFails)
    IN  /\ nextId' = id
        /\ disk' = disk \cup {files[i].path : i \in 1..Len(files)}
        /\ scheduled_posts' =
              IF code = "201"
              THEN (id :> NewRow(user, files, platforms, scheduledAt)) @@ scheduled_posts
              ELSE scheduled_posts
        /\ trace' = <<Ev("schedule", IF code = "201" THEN id ELSE 0, "", code)>>
        /\ UNCHANGED <<schedulerTimer, intervals, user_settings, now, ticks, disp>>

\* Mutation of CancelStatus: the handler does not look at the status.
CancelStatusAnyStatus(st, user, id, dbFails) ==
    IF dbFails THEN "500"
    ELSE IF id \notin DOMAIN st THEN "404"
    ELSE IF st[id].user_id # user THEN "403"
    ELSE "200"

\* The status code DELETE /api/scheduled/:id answers with.
CancelStatus(st, user, id, dbFails) ==
    IF dbFails THEN "500"
    ELSE IF id \notin DOMAIN st THEN "404"
    ELSE IF st[id].user_id # user THEN "403"
    ELSE IF st[id].status # "pending" THEN "400"
    ELSE "200"

\* Mutation of CancelRoute: the handler deletes the row and no file.
CancelRouteKeepsFiles(user, id, unlinkFails, dbFails) ==
    LET code == CancelStatus(scheduled_posts, user, id, dbFails = "findById")
        answer == IF code = "200" /\ dbFails = "delete" THEN "500" ELSE code
    IN  /\ disk' = disk
        /\ scheduled_posts' =
              IF answer = "200"
              THEN [j \in DOMAIN scheduled_posts \ {id} |-> scheduled_posts[j]]
              ELSE scheduled_posts
        /\ trace' = <<Ev("cancel", IF answer = "200" THEN id ELSE 0, "", answer)>>
        /\ UNCHANGED <<schedulerTimer, intervals, user_settings, now, nextId, ticks, disp>>

\* DELETE /api/scheduled/:id.  unlinkFails are the files whose unlinkSync
\* throws (the handler logs a warning and goes on); dbFails names the database
\* call that throws: "findById", "delete" or "none".
CancelRoute(user, id, unlinkFails, dbFails) ==
    LET code == CancelStatus(scheduled_posts, user, id, dbFails = "findById")
        answer == IF code = "200" /\ dbFails = "delete" THEN "500" ELSE code
    IN  /\ disk' = IF code = "200"
                   THEN disk \ {scheduled_posts[id].media_paths[i] :
                                  i \in {j \in 1..Len(scheduled_posts[id].media_paths) :
                                           scheduled_posts[id].media_paths[j] \notin unlinkFails}}
                   ELSE disk
        /\ scheduled_posts' =
              IF answer = "200"
              THEN [j \in DOMAIN scheduled_posts \ {id} |-> scheduled_posts[j]]
              ELSE scheduled_posts
        /\ trace' = <<Ev("cancel", IF answer = "200" THEN id ELSE 0, "", answer)>>
        /\ UNCHANGED <<schedulerTimer, intervals, user_settings, now, nextId, ticks, disp>>

----------------------------------------------------------------------------
\* The program: the scheduler, the two routes and the clock.

\* What a macrotask that ran the scheduler up to outcome r leaves behind;
\* k is the resumed tick (0: a new activation).
Leave(r, k) ==
    /\ scheduled_posts' = r.store
    /\ trace' = r.trace
    /\ ticks' = IF r.exited THEN <<>>
                ELSE IF k = 0 THEN (IF r.suspended THEN Append(ticks, r.tick) ELSE ticks)
                ELSE IF r.suspended THEN [ticks EXCEPT ![k] = r.tick]
                ELSE [j \in 1..(Len(ticks) - 1) |-> IF j < k THEN ticks[j] ELSE ticks[j + 1]]

\* One activation of runSchedulerTick, from its call to its first suspension.
BeginTick(tr) ==
    \E r \in runSchedulerTick([store |-> scheduled_posts, trace |-> tr], Clock(now),
                               user_settings, disk) :
        Leave(r, 0)

\* The end of the process (an unhandled rejection) ends its timers too.
ProcessExit(tr) == Happened(tr, "unhandledRejection")

\* An interval timer calls runSchedulerTick. The timerFire event records
\* whether the macrotask before it was a tick whose getPending call threw.
TimerFire ==
    /\ intervals > 0
    /\ Len(ticks) < MaxTicks
    /\ BeginTick(<<Ev("timerFire", 0, "",
                      IF Happened(trace, "getPendingThrew")
                      THEN "afterQueryFailure" ELSE "")>>)
    /\ schedulerTimer' = (IF ProcessExit(trace') THEN "null" ELSE schedulerTimer)
    /\ intervals' = (IF ProcessExit(trace') THEN 0 ELSE intervals)
    /\ UNCHANGED <<user_settings, disk, now, nextId, disp>>

\* Mutation of StartScheduler: without the `if (schedulerTimer)` guard.
StartSchedulerUnguarded ==
    /\ Len(ticks) < MaxTicks
    /\ intervals < MaxTicks
    /\ BeginTick(<<Ev("start", 0, "", "")>>)
    /\ schedulerTimer' = (IF ProcessExit(trace') THEN "null" ELSE "armed")
    /\ intervals' = (IF ProcessExit(trace') THEN 0 ELSE intervals + 1)
    /\ UNCHANGED <<user_settings, disk, now, nextId, disp>>

\* startScheduler().
StartScheduler ==
    \/ /\ schedulerTimer # "null"
       /\ trace' = <<Ev("alreadyRunning", 0, "", "")>>
       /\ UNCHANGED <<schedulerTimer, intervals, scheduled_posts, user_settings, disk, now,
                      nextId, ticks, disp>>
    \/ /\ schedulerTimer = "null"
       /\ Len(ticks) < MaxTicks
       /\ BeginTick(<<Ev("start", 0, "", "")>>)
       /\ schedulerTimer' = (IF ProcessExit(trace') THEN "null" ELSE "armed")
       /\ intervals' = (IF ProcessExit(trace') THEN 0 ELSE intervals + 1)
       /\ UNCHANGED <<user_settings, disk, now, nextId, disp>>

\* Mutation of StopScheduler: the handle is forgotten, the timer not cleared.
StopSchedulerKeepsTimer ==
    /\ schedulerTimer' = "null"
    /\ trace' = IF schedulerTimer # "null" THEN <<Ev("stopped", 0, "", "")>> ELSE <<>>
    /\ UNCHANGED <<intervals, scheduled_posts, user_settings, disk, now, nextId, ticks, disp>>

\* stopScheduler().
StopScheduler ==
    /\ schedulerTimer' = "null"
    /\ intervals' = (IF schedulerTimer # "null" THEN intervals - 1 ELSE intervals)
    /\ trace' = IF schedulerTimer # "null" THEN <<Ev("stopped", 0, "", "")>> ELSE <<>>
    /\ UNCHANGED <<scheduled_posts, user_settings, disk, now, nextId, ticks, disp>>

\* The network call of one adapter of the k-th suspended tick completes; the
\* last one of the call resumes the tick.
AdapterSettleAt(k) ==
    /\ k \in 1..Len(ticks)
    /\ \E i \in 1..Len(ticks[k].call.promises) :
        /\ ticks[k].call.promises[i].state = "pending"
        /\ \E v \in IoOutcomes(ticks[k].call.promises[i]) :
              LET t == [ticks[k] EXCEPT !.call = SettleSlot(ticks[k].call, i, v)]
              IN  IF AllSettled(t.call)
                  THEN \E r \in TickResume([store |-> scheduled_posts, trace |-> <<>>],
                                            t, user_settings, disk) :
                          Leave(r, k)
                  ELSE /\ ticks' = [ticks EXCEPT ![k] = t]
                       /\ trace' = <<>>
                       /\ UNCHANGED scheduled_posts
        /\ schedulerTimer' = (IF ProcessExit(trace') THEN "null" ELSE schedulerTimer)
        /\ intervals' = (IF ProcessExit(trace') THEN 0 ELSE intervals)
        /\ UNCHANGED <<user_settings, disk, now, nextId, disp>>

AdapterSettle == \E k \in 1..Len(ticks) : AdapterSettleAt(k)

\* A second passes.
ClockTick ==
    /\ now < MaxNow
    /\ now' = now + 1
    /\ trace' = <<>>
    /\ UNCHANGED <<schedulerTimer, intervals, scheduled_posts, user_settings, disk, nextId,
                   ticks, disp>>

\* The requests to POST /api/scheduled the model draws from.
SchedulePlatforms ==
    {PlatformsField(FALSE, FALSE, <<>>),
     PlatformsField(TRUE, FALSE, <<>>),
     PlatformsField(TRUE, TRUE, <<"facebook">>),
     PlatformsField(TRUE, TRUE, <<"instagram", "facebook">>),
     PlatformsField(TRUE, TRUE, NotAnArray)}

ScheduleTimes ==
    {ScheduledAtField(FALSE, FALSE, Clock(0)),
     ScheduledAtField(TRUE, FALSE, Clock(0)),
     ScheduledAtField(TRUE, TRUE, Clock(1)),
     ScheduledAtField(TRUE, TRUE, Clock(2)),
     ScheduledAtField(TRUE, TRUE, Instant(10000, 0))}

ScheduleFiles(id) == {<<>>, <<File(Path(id, 1, ".jpg"), Mime("image", "jpeg"))>>}

Schedule ==
    /\ nextId < MaxPosts
    /\ \E files \in ScheduleFiles(nextId + 1), platforms \in SchedulePlatforms,
          scheduledAt \in ScheduleTimes, dbFails \in BOOLEAN :
            ScheduleRoute("u1", files, platforms, scheduledAt, dbFails)

\* The media files of a stored post.
MediaOf(st, id) ==
    IF id \in DOMAIN st THEN {st[id].media_paths[i] : i \in 1..Len(st[id].media_paths)}
    ELSE {}

\* The files a cancel request gets to unlink.
Unlinkable(user, id, dbFails) ==
    IF CancelStatus(scheduled_posts, user, id, dbFails = "findById") = "200"
    THEN MediaOf(scheduled_posts, id) ELSE {}

\* The requests to DELETE /api/scheduled/:id, with the database calls in
\* faults failing.
CancelRequest(faults) ==
    \E user \in Users, id \in Ids, dbFails \in faults :
        \E unlinkFails \in SUBSET Unlinkable(user, id, dbFails) :
            CancelRoute(user, id, unlinkFails, dbFails)

Cancel == CancelRequest({"none"})

Init ==
    /\ schedulerTimer = "null"
    /\ intervals = 0
    /\ scheduled_posts = <<>>
    /\ user_settings =
          ("u1" :> ("facebook" :> ("page_id" :> "page" @@ "access_token" :> "token")))
    /\ disk = {}
    /\ now = 0
    /\ nextId = 0
    /\ ticks = <<>>
    /\ trace = <<>>
    /\ disp = Idle

Next ==
    \/ StartScheduler
    \/ StopScheduler
    \/ TimerFire
    \/ AdapterSettle
    \/ ClockTick
    \/ Schedule
    \/ Cancel

Spec == Init /\ [][Next]_vars

\* The macrotask that produced tr met no database error.
DatabaseHealthy(tr) ==
    \A k \in 1..Len(tr) :
        tr[k].ev \notin {"getPendingThrew", "updateStatusThrew", "getAllForUserThrew"}

\* POST /api/scheduled with a request the route accepts.
ScheduleAccepted ==
    /\ nextId < MaxPosts
    /\ \E platforms \in {PlatformsField(TRUE, TRUE, <<"facebook">>),
                          PlatformsField(TRUE, TRUE, <<"instagram", "facebook">>)} :
          ScheduleRoute("u1", <<File(Path(nextId + 1, 1, ".jpg"), Mime("image", "jpeg"))>>,
                        platforms, ScheduledAtField(TRUE, TRUE, Clock(1)), FALSE)

NextLive ==
    \/ StartScheduler
    \/ StopScheduler
    \/ TimerFire
    \/ AdapterSettle
    \/ ClockTick
    \/ ScheduleAccepted
    \/ Cancel

\* The program, on accepted schedule requests, under the scheduling Node
\* gives it: while the interval timer is armed its callback keeps being
\* called, every adapter call of every suspended tick settles, and database
\* errors are transient (a call that is made again and again meets a working
\* database again and again).
SpecLive ==
    /\ Init /\ [][NextLive]_vars
    /\ SF_vars(TimerFire /\ DatabaseHealthy(trace'))
    /\ \A k \in 1..MaxTicks : SF_vars(AdapterSettleAt(k) /\ DatabaseHealthy(trace'))

\* The Node process ends (it is killed or the host restarts): its interval
\* timer, the schedulerTimer handle and every suspended activation of
\* runSchedulerTick are gone; the database and the upload directory stay.
\* The next process begins with startScheduler.
ProcessKilled ==
    /\ schedulerTimer # "null"
    /\ schedulerTimer' = "null"
    /\ intervals' = 0
    /\ ticks' = <<>>
    /\ trace' = <<Ev("processKilled", 0, "", "")>>
    /\ UNCHANGED <<scheduled_posts, user_settings, disk, now, nextId, disp>>

\* A macrotask of the scheduler that meets no database error.
HealthyStart == StartScheduler /\ DatabaseHealthy(trace')

HealthyTimerFire == TimerFire /\ DatabaseHealthy(trace')

HealthyAdapterSettle == AdapterSettle /\ DatabaseHealthy(trace')

NextRestart ==
    \/ HealthyStart
    \/ HealthyTimerFire
    \/ HealthyAdapterSettle
    \/ ClockTick
    \/ ScheduleAccepted
    \/ ProcessKilled

\* The scheduler over processes that end and are started again, with a
\* database that never fails, under the scheduling Node gives it: while the
\* interval timer is armed its callback keeps being called, and every
\* adapter call of every suspended tick settles.
SpecRestart ==
    /\ Init /\ [][NextRestart]_vars
    /\ SF_vars(TimerFire /\ DatabaseHealthy(trace'))
    /\ \A k \in 1..MaxTicks : SF_vars(AdapterSettleAt(k) /\ DatabaseHealthy(trace'))

\* DELETE /api/scheduled/:id, also when a database call of the handler throws.
CancelWithFaults == CancelRequest({"none", "findById", "delete"})

NextCancel ==
    \/ StartScheduler
    \/ TimerFire
    \/ AdapterSettle
    \/ ClockTick
    \/ ScheduleAccepted
    \/ CancelWithFaults

\* The scheduler with accepted schedule requests and every cancel request.
SpecCancel == Init /\ [][NextCancel]_vars

\* The uploads POST /api/scheduled stores for request id: its multer takes up
\* to ten files of any type (no fileFilter) and the handler validates none.
ScheduledUploads(id) ==
    {<<File(Path(id, 1, ".jpg"), Mime("image", "jpeg"))>>,
     <<File(Path(id, 1, ".mp4"), Mime("video", "mp4"))>>,
     <<File(Path(id, 1, ".jpg"), Mime("image", "jpeg")),
       File(Path(id, 2, ".mp4"), Mime("video", "mp4"))>>,
     <<File(Path(id, 1, ".mp4"), Mime("video", "mp4")),
       File(Path(id, 2, ".mp4"), Mime("video", "mp4"))>>}

\* The platforms field of such a request: the texts '["facebook"]' and '[]'.
ScheduledPlatforms == {<<"facebook">>, <<>>}

\* POST /api/scheduled by u1 for the next second, with a working database.
ScheduleMediaRequest(files, platforms) ==
    ScheduleRoute("u1", files, PlatformsField(TRUE, TRUE, platforms),
                  ScheduledAtField(TRUE, TRUE, Clock(1)), FALSE)

\* POST /api/scheduled with a request the route accepts and any such upload.
ScheduleMedia ==
    /\ nextId < MaxPosts
    /\ \E files \in ScheduledUploads(nextId + 1), platforms \in ScheduledPlatforms :
          ScheduleMediaRequest(files, platforms)

NextReplay ==
    \/ StartScheduler
    \/ TimerFire
    \/ AdapterSettle
    \/ ClockTick
    \/ ScheduleMedia

\* The scheduler replaying what the schedule route stored.
SpecReplay == Init /\ [][NextReplay]_vars

\* One uploaded file as multer stores it for POST /api/scheduled: mimetype is
\* the Content-Type of the part, the stored name ends in
\* path.extname(file.originalname), and the two need not agree.
NamedUploads(id) ==
    {<<File(Path(id, 1, ".jpg"), Mime("image", "jpeg"))>>,
     <<File(Path(id, 1, ".mp4"), Mime("video", "mp4"))>>,
     <<File(Path(id, 1, ".m4v"), Mime("video", "mp4"))>>,
     <<File(Path(id, 1, ""), Mime("video", "quicktime"))>>}

\* POST /api/scheduled with one file of any name.
ScheduleNamed ==
    /\ nextId < MaxPosts
    /\ \E files \in NamedUploads(nextId + 1) : ScheduleMediaRequest(files, <<"facebook">>)

NextNamed ==
    \/ StartScheduler
    \/ TimerFire
    \/ AdapterSettle
    \/ ClockTick
    \/ ScheduleNamed

\* The scheduler replaying single files stored under any name.
SpecNamed == Init /\ [][NextNamed]_vars

----------------------------------------------------------------------------
\* POST /api/post: the immediate publish route.

\* uploadConfig.
maxPhotos == 10

maxPhotoSize == 10 * 1024 * 1024

maxVideoSize == 100 * 1024 * 1024

allowedImageTypes ==
    {Mime("image", "jpeg"), Mime("image", "png"), Mime("image", "gif"), Mime("image", "webp")}

allowedVideoTypes ==
    {Mime("video", "mp4"), Mime("video", "quicktime"), Mime("video", "x-msvideo")}

\* A file as multer hands it to the route.
Upload(p, m, size) == [path |-> p, mimetype |-> m, size |-> size]

PathsOf(files) == {files[i].path : i \in 1..Len(files)}

\* The errors the forEach of validateMedia pushes for one file.
FileErrors(file) ==
    IF isImage(file.mimetype)
    THEN (IF file.mimetype \notin allowedImageTypes
          THEN <<"Unsupported image type">> ELSE <<>>)
         \o (IF file.size > maxPhotoSize THEN <<"Image exceeds maximum size">> ELSE <<>>)
    ELSE IF isVideo(file.mimetype)
    THEN (IF file.mimetype \notin allowedVideoTypes
          THEN <<"Unsupported video type">> ELSE <<>>)
         \o (IF file.size > maxVideoSize THEN <<"Video exceeds maximum size">> ELSE <<>>)
    ELSE <<"Unsupported file type">>

RECURSIVE EachFileErrors(_, _)
EachFileErrors(files, i) ==
    IF i > Len(files) THEN <<>> ELSE FileErrors(files[i]) \o EachFileErrors(files, i + 1)

\* Mutation of validateMedia: photos and videos may be mixed.
validateMediaAllowsMixed(files) ==
    IF files = <<>> THEN <<"No media files provided">>
    ELSE LET hasImages == \E i \in 1..Len(files) : isImage(files[i].mimetype)
             hasVideos == \E i \in 1..Len(files) : isVideo(files[i].mimetype)
         IN  (IF hasImages /\ Len(files) > maxPhotos
              THEN <<"Maximum photos allowed">> ELSE <<>>)
             \o (IF hasVideos /\ ~hasImages /\ Len(files) > 1
                 THEN <<"Only one video per post is allowed">> ELSE <<>>)
             \o EachFileErrors(files, 1)

\* validateMedia: the error messages, in the order they are pushed.
validateMedia(files) ==
    IF files = <<>> THEN <<"No media files provided">>
    ELSE LET hasImages == \E i \in 1..Len(files) : isImage(files[i].mimetype)
             hasVideos == \E i \in 1..Len(files) : isVideo(files[i].mimetype)
         IN  IF hasImages /\ hasVideos
             THEN <<"Cannot mix photos and videos in a single post">>
             ELSE (IF hasImages /\ Len(files) > maxPhotos
                   THEN <<"Maximum photos allowed">> ELSE <<>>)
                  \o (IF hasVideos /\ Len(files) > 1
                      THEN <<"Only one video per post is allowed">> ELSE <<>>)
                  \o EachFileErrors(files, 1)

\* Mutation of cleanupFiles: only the first file is unlinked.
cleanupFilesFirstOnly(files, dsk, unlinkFails) ==
    IF files = <<>> THEN dsk ELSE dsk \ ({files[1].path} \ unlinkFails)

\* cleanupFiles: every file is unlinked, except those whose unlinkSync throws
\* (the error is logged and the loop goes on).
cleanupFiles(files, dsk, unlinkFails) == dsk \ (PathsOf(files) \ unlinkFails)

\* req.body.platforms: missing, an array (the field was repeated), a text
\* (given as its comma-separated pieces, at least one), or an object.
RawUndefined == [kind |-> "undefined", items |-> <<>>]

RawArray(v) == [kind |-> "array", items |-> v]

RawText(pieces) == [kind |-> "string", items |-> pieces]

RawObject == [kind |-> "object", items |-> <<>>]

\* String.prototype.trim on the pieces used below.
Trim(piece) ==
    CASE piece = " Telegram " -> "Telegram"
      [] piece = " " -> ""
      [] OTHER -> piece

\* Array.isArray(raw) ? raw : raw?.split(',').map(p => p.trim()) || [].
ParsePlatforms(raw) ==
    CASE raw.kind = "array" -> [threw |-> FALSE, platforms |-> raw.items]
      [] raw.kind = "undefined" -> [threw |-> FALSE, platforms |-> <<>>]
      [] raw.kind = "string" ->
            [threw |-> FALSE, platforms |-> [i \in 1..Len(raw.items) |-> Trim(raw.items[i])]]
      [] OTHER -> [threw |-> TRUE, platforms |-> <<>>]

\* platformFields of routes/settings.js.
platformFields ==
    [facebook |-> {"page_id", "access_token"},
     telegram |-> {"bot_token", "chat_id"},
     tiktok |-> {"access_token", "open_id"},
     instagram |-> {"account_id", "access_token"},
     youtube |-> {"client_id", "client_secret", "refresh_token"}]

\* Mutation of getSettings: only the Facebook fields are filled in.
getSettingsFacebookOnly(table, userId) ==
    LET settings == getAllForUser(table, userId)
    IN  [key \in {"facebook_page_id", "facebook_access_token"} |->
            LET f == IF key = "facebook_page_id" THEN "page_id" ELSE "access_token"
            IN  IF "facebook" \in DOMAIN settings /\ f \in DOMAIN settings["facebook"]
                THEN settings["facebook"][f] ELSE ""]

\* getSettings: the flat object with every key of platformFields, '' where
\* the user has stored nothing.
getSettings(table, userId) ==
    LET settings == getAllForUser(table, userId)
        pairs == UNION {{<<q, f>> : f \in platformFields[q]} : q \in DOMAIN platformFields}
    IN  [key \in {x[1] \o "_" \o x[2] : x \in pairs} |->
            LET pf == CHOOSE x \in pairs : x[1] \o "_" \o x[2] = key
            IN  IF pf[1] \in DOMAIN settings /\ pf[2] \in DOMAIN settings[pf[1]]
                THEN settings[pf[1]][pf[2]] ELSE ""]

\* What the route sends.  errors tells that the body carries error messages
\* and no results.
Response(status, success, partialSuccess, results, errors) ==
    [status |-> status, success |-> success, partialSuccess |-> partialSuccess,
     results |-> results, errors |-> errors]

NoResponse == Response("", FALSE, FALSE, <<>>, FALSE)

ErrorResponse(status) == Response(status, FALSE, FALSE, <<>>, TRUE)

\* Mutation of PublishResponse: anything short of full success answers 500.
PublishResponseAllOrError(results) ==
    LET allSuccess == \A i \in 1..Len(results) : results[i].success
        anySuccess == \E i \in 1..Len(results) : results[i].success
    IN  Response(IF allSuccess THEN "200" ELSE "500", allSuccess,
                 anySuccess /\ ~allSuccess, results, FALSE)

\* res.status(anySuccess ? 200 : 500).json({success, partialSuccess, results}).
PublishResponse(results) ==
    LET allSuccess == \A i \in 1..Len(results) : results[i].success
        anySuccess == \E i \in 1..Len(results) : results[i].success
    IN  Response(IF anySuccess THEN "200" ELSE "500", allSuccess,
                 anySuccess /\ ~allSuccess, results, FALSE)

\* The handler from its first line to its first suspension: either it has
\* answered (done) or it awaits postToAllPlatforms.
PublishHandler(files, raw, userId, table, dbFails, dsk) ==
    LET parsed == ParsePlatforms(raw)
        answered(resp) == [done |-> TRUE, response |-> resp, call |-> NoCall,
                           platforms |-> parsed.platforms]
    IN  IF validateMedia(files) # <<>> THEN answered(ErrorResponse("400"))
        ELSE IF parsed.threw THEN answered(ErrorResponse("500"))
        ELSE IF Len(parsed.platforms) = 0 THEN answered(ErrorResponse("400"))
        ELSE IF dbFails THEN answered(ErrorResponse("500"))
        ELSE LET r == postToAllPlatformsStart(parsed.platforms, files,
                                              getSettings(table, userId), dsk)
             IN  IF r.threw THEN answered(ErrorResponse("500"))
                 ELSE IF AllSettled(r.call)
                 THEN [done |-> TRUE, call |-> r.call, platforms |-> parsed.platforms,
                       response |-> PublishResponse(postToAllPlatformsEnd(r.call).results)]
                 ELSE [done |-> FALSE, call |-> r.call, platforms |-> parsed.platforms,
                       response |-> NoResponse]

\* The requests the model draws from (upload request 0).
SmallSize == 1024

PublishFiles ==
    {<<>>,
     <<Upload(Path(0, 1, ".jpg"), Mime("image", "jpeg"), SmallSize)>>,
     <<Upload(Path(0, 1, ".jpg"), Mime("image", "jpeg"), SmallSize),
       Upload(Path(0, 2, ".png"), Mime("image", "png"), SmallSize)>>,
     <<Upload(Path(0, 1, ".mp4"), Mime("video", "mp4"), SmallSize)>>,
     <<Upload(Path(0, 1, ".mp4"), Mime("video", "mp4"), SmallSize),
       Upload(Path(0, 2, ".mov"), Mime("video", "quicktime"), SmallSize)>>,
     <<Upload(Path(0, 1, ".jpg"), Mime("image", "jpeg"), SmallSize),
       Upload(Path(0, 2, ".mp4"), Mime("video", "mp4"), SmallSize)>>,
     <<Upload(Path(0, 1, ".bmp"), Mime("image", "bmp"), SmallSize)>>,
     <<Upload(Path(0, 1, ".pdf"), Mime("application", "pdf"), SmallSize)>>,
     <<Upload(Path(0, 1, ".jpg"), Mime("image", "jpeg"), maxPhotoSize + 1)>>,
     <<Upload(Path(0, 1, ".mkv"), Mime("video", "x-matroska"), SmallSize)>>}

PublishPlatforms ==
    {RawUndefined, RawObject, RawArray(<<>>), RawArray(<<"facebook", "Telegram">>),
     RawText(<<"">>), RawText(<<"facebook">>), RawText(<<"facebook", " Telegram ">>),
     RawText(<<"instagram", "unknownplat">>)}

PublishSettings ==
    {<<>>,
     ("u1" :> ("facebook" :> ("page_id" :> "page" @@ "access_token" :> "token"))),
     ("u1" :> ("facebook" :> ("page_id" :> "page" @@ "access_token" :> "token")
               @@ "telegram" :> ("bot_token" :> "bot" @@ "chat_id" :> "chat")))}

IdlePublish ==
    [phase |-> "idle", raw |-> RawUndefined, files |-> <<>>, platforms |-> <<>>,
     call |-> NoCall, response |-> NoResponse, unlinkFailed |-> {}]

InitPublish ==
    /\ schedulerTimer = "null"
    /\ intervals = 0
    /\ scheduled_posts = <<>>
    /\ user_settings \in PublishSettings
    /\ disk = {}
    /\ now = 0
    /\ nextId = 0
    /\ ticks = <<>>
    /\ trace = <<>>
    /\ disp = IdlePublish

\* POST /api/post arrives: multer stores the files, the handler runs up to its
\* answer or to `await postToAllPlatforms`.  unlinkFails are the files whose
\* unlinkSync throws in cleanupFiles.
PublishRequest ==
    /\ disp.phase = "idle"
    /\ \E files \in PublishFiles, raw \in PublishPlatforms, dbFails \in BOOLEAN :
          LET uploaded == disk \cup PathsOf(files)
              h == PublishHandler(files, raw, "u1", user_settings, dbFails, uploaded)
          IN  \E unlinkFails \in SUBSET (IF h.done THEN PathsOf(files) ELSE {}) :
                /\ disp' = [phase |-> IF h.done THEN "done" ELSE "waiting",
                            raw |-> raw, files |-> files, platforms |-> h.platforms,
                            call |-> h.call, response |-> h.response,
                            unlinkFailed |-> unlinkFails]
                /\ disk' = IF h.done THEN cleanupFiles(files, uploaded, unlinkFails)
                           ELSE uploaded
    /\ UNCHANGED schedVars

\* An adapter's network call completes; the last one resumes the handler,
\* which cleans up and answers.
PublishSettle ==
    /\ disp.phase = "waiting"
    /\ \E i \in 1..Len(disp.call.promises) :
          /\ disp.call.promises[i].state = "pending"
          /\ \E v \in IoOutcomes(disp.call.promises[i]) :
                LET c == SettleSlot(disp.call, i, v)
                IN  IF AllSettled(c)
                    THEN \E unlinkFails \in SUBSET PathsOf(disp.files) :
                            /\ disp' = [disp EXCEPT
                                          !.phase = "done", !.call = c,
                                          !.unlinkFailed = unlinkFails,
                                          !.response =
                                              PublishResponse(postToAllPlatformsEnd(c).results)]
                            /\ disk' = cleanupFiles(disp.files, disk, unlinkFails)
                    ELSE /\ disp' = [disp EXCEPT !.call = c]
                         /\ disk' = disk
    /\ UNCHANGED schedVars

NextPublish == PublishRequest \/ PublishSettle

SpecPublish == InitPublish /\ [][NextPublish]_vars

----------------------------------------------------------------------------
\* The adapters on their own: every adapter on every media kind and every
\* state of its credentials.

Adapters == {"facebook", "telegram", "tiktok", "instagram"}

\* The credential fields an adapter reads from userSettings.
RequiredKeys(adapter) ==
    CASE adapter = "facebook" -> {"facebook_page_id", "facebook_access_token"}
      [] adapter = "telegram" -> {"telegram_bot_token", "telegram_chat_id"}
      [] adapter = "tiktok" -> {"tiktok_access_token", "tiktok_open_id"}
      [] adapter = "instagram" -> {"instagram_account_id", "instagram_access_token"}
      [] adapter = "youtube" ->
            {"youtube_client_id", "youtube_client_secret", "youtube_refresh_token"}

\* userSettings objects in which each required field is absent, '' or set.
AdapterSettings(adapter) ==
    UNION {[D -> {"", "secret"}] : D \in SUBSET RequiredKeys(adapter)}

\* One call of an adapter, up to its first network call.
Adapter(adapter, files, mediaType, userSettings, dsk, publicUrl) ==
    CASE adapter = "facebook" -> postToFacebook(files, mediaType, userSettings, dsk)
      [] adapter = "telegram" -> postToTelegram(files, mediaType, userSettings, dsk)
      [] adapter = "tiktok" -> postToTikTok(files, mediaType, userSettings, dsk)
      [] adapter = "instagram" -> postToInstagram(files, mediaType, userSettings, publicUrl)

MediaChoices == {<<Jpg0>>, <<Jpg0, Png0>>, <<Mp40>>}

IdleAdapter ==
    [phase |-> "idle", adapter |-> "", files |-> <<>>, mediaType |-> "",
     settings |-> <<>>, publicUrl |-> "", promise |-> Fulfilled(NoResult),
     networkCall |-> FALSE]

InitAdapters ==
    /\ schedulerTimer = "null"
    /\ intervals = 0
    /\ scheduled_posts = <<>>
    /\ user_settings = <<>>
    /\ disk \in {{}, {Jpg0.path, Png0.path, Mp40.path}}
    /\ now = 0
    /\ nextId = 0
    /\ ticks = <<>>
    /\ trace = <<>>
    /\ disp = IdleAdapter

\* An adapter is called and runs up to its result or its first network call.
AdapterCall ==
    /\ disp.phase = "idle"
    /\ \E adapter \in Adapters, files \in MediaChoices :
       \E us \in AdapterSettings(adapter),
          publicUrl \in (IF adapter = "instagram" THEN {"", "https://host"} ELSE {""}) :
            LET mediaType == IF isVideo(files[1].mimetype) THEN "video" ELSE "photo"
                promise == Adapter(adapter, files, mediaType, us, disk, publicUrl)
            IN  disp' = [phase |-> IF IsSettled(promise) THEN "returned" ELSE "called",
                         adapter |-> adapter, files |-> files, mediaType |-> mediaType,
                         settings |-> us, publicUrl |-> publicUrl, promise |-> promise,
                         networkCall |-> ~IsSettled(promise)]
    /\ UNCHANGED <<schedVars, disk>>

\* The network call of the adapter completes and the adapter returns.
AdapterReturn ==
    /\ disp.phase = "called"
    /\ \E v \in IoOutcomes(disp.promise) :
          disp' = [disp EXCEPT !.phase = "returned", !.promise = Fulfilled(v)]
    /\ UNCHANGED <<schedVars, disk>>

NextAdapters == AdapterCall \/ AdapterReturn

SpecAdapters == InitAdapters /\ [][NextAdapters]_vars

----------------------------------------------------------------------------
\* The Facebook multi-photo path: postMultiplePhotos stages every photo as
\* unpublished, all requests at once, and then creates the feed post.

MaxStaged == 3

\* The photos of one call.
Photos(n) == [i \in 1..n |-> File(Path(0, i, ".jpg"), Mime("image", "jpeg"))]

\* uploadUnpublishedPhoto: what its request can end in. The stream of a
\* missing file fails the request.
StageOutcomes(file, dsk) ==
    IF file.path \in dsk THEN {"staged", "failed"} ELSE {"failed"}

\* Mutation of PromiseAll: Promise.allSettled, which waits for every request
\* and never rejects.
PromiseAllSettled(staged) ==
    IF \E i \in 1..Len(staged) : staged[i] = "inflight" THEN "pending" ELSE "resolved"

\* Promise.all over the staging requests: rejected as soon as one fails,
\* resolved when all have succeeded.
PromiseAll(staged) ==
    IF \E i \in 1..Len(staged) : staged[i] = "failed" THEN "rejected"
    ELSE IF \A i \in 1..Len(staged) : staged[i] = "staged" THEN "resolved"
    ELSE "pending"

\* postMultiplePhotos (inside postToFacebook) as a staging request settles:
\* it goes on waiting, posts to /feed, or throws into postToFacebook's catch.
postMultiplePhotos(call, staged) ==
    CASE PromiseAll(staged) = "pending" -> [call EXCEPT !.staged = staged]
      [] PromiseAll(staged) = "resolved" ->
            [call EXCEPT !.staged = staged, !.phase = "posting", !.feed = "inflight"]
      [] PromiseAll(staged) = "rejected" ->
            [call EXCEPT !.staged = staged, !.phase = "returned",
                         !.result = Failure("facebook", "Request failed")]

IdleFacebook ==
    [phase |-> "idle", files |-> <<>>, staged |-> <<>>, feed |-> "none",
     result |-> NoResult]

InitFacebook ==
    /\ schedulerTimer = "null"
    /\ intervals = 0
    /\ scheduled_posts = <<>>
    /\ user_settings = <<>>
    /\ disk \in SUBSET PathsOf(Photos(MaxStaged))
    /\ now = 0
    /\ nextId = 0
    /\ ticks = <<>>
    /\ trace = <<>>
    /\ disp = IdleFacebook

\* postToFacebook, configured, is called with several photos: every staging
\* request goes out.
FacebookCall ==
    /\ disp.phase = "idle"
    /\ \E n \in 2..MaxStaged :
          disp' = [IdleFacebook EXCEPT !.phase = "staging", !.files = Photos(n),
                                       !.staged = [i \in 1..n |-> "inflight"]]
    /\ UNCHANGED <<schedVars, disk>>

\* One staging request completes; a request that completes after the adapter
\* returned changes nothing but itself.
FacebookStageSettle ==
    /\ disp.phase # "idle"
    /\ \E i \in 1..Len(disp.staged) :
          /\ disp.staged[i] = "inflight"
          /\ \E o \in StageOutcomes(disp.files[i], disk) :
                LET staged == [disp.staged EXCEPT ![i] = o]
                IN  disp' = IF disp.phase = "staging"
                            THEN postMultiplePhotos(disp, staged)
                            ELSE [disp EXCEPT !.staged = staged]
    /\ UNCHANGED <<schedVars, disk>>

\* The request to /feed completes and postToFacebook returns.
FacebookFeedSettle ==
    /\ disp.phase = "posting"
    /\ \E created \in BOOLEAN :
          disp' = [disp EXCEPT !.phase = "returned",
                               !.feed = IF created THEN "created" ELSE "refused",
                               !.result = IF created THEN Success("facebook", "id")
                                          ELSE Failure("facebook", "Request failed")]
    /\ UNCHANGED <<schedVars, disk>>

NextFacebook == FacebookCall \/ FacebookStageSettle \/ FacebookFeedSettle

SpecFacebook == InitFacebook /\ [][NextFacebook]_vars

----------------------------------------------------------------------------
\* The Instagram paths: containers are created one request after the other,
\* a video or carousel container is polled until it is ready, and then the
\* container is published.

maxAttempts == 60

\* status_code values of a container, and a status request that fails.
PollResponses == {"FINISHED", "ERROR", "IN_PROGRESS", "EXPIRED", "networkError"}

\* Mutation of waitForMediaReady: the loop test is i <= maxAttempts.
waitForMediaReadyOneMore(i, statusCode) ==
    IF statusCode = "FINISHED" THEN [next |-> "return", error |-> ""]
    ELSE IF statusCode = "ERROR"
    THEN [next |-> "throw", error |-> "Media processing failed: Unknown error"]
    ELSE IF i + 1 <= maxAttempts THEN [next |-> "poll", error |-> ""]
    ELSE [next |-> "throw", error |-> "Media processing timed out"]

\* Mutation of waitForMediaReady: when the attempts are used up it returns
\* instead of throwing.
waitForMediaReadyGivesUp(i, statusCode) ==
    IF statusCode = "FINISHED" THEN [next |-> "return", error |-> ""]
    ELSE IF statusCode = "ERROR"
    THEN [next |-> "throw", error |-> "Media processing failed: Unknown error"]
    ELSE IF i + 1 < maxAttempts THEN [next |-> "poll", error |-> ""]
    ELSE [next |-> "return", error |-> ""]

\* waitForMediaReady, iteration i of its loop (from 0), once the status
\* request answered statusCode: it returns true, throws, or sleeps and polls
\* again while i + 1 < maxAttempts.
waitForMediaReady(i, statusCode) ==
    IF statusCode = "FINISHED" THEN [next |-> "return", error |-> ""]
    ELSE IF statusCode = "ERROR"
    THEN [next |-> "throw", error |-> "Media processing failed: Unknown error"]
    ELSE IF i + 1 < maxAttempts THEN [next |-> "poll", error |-> ""]
    ELSE [next |-> "throw", error |-> "Media processing timed out"]

\* The containers a call creates: one for a photo or a video, one per item
\* and one for the carousel otherwise.
ContainersOf(kind, n) == IF kind = "carousel" THEN n + 1 ELSE 1

\* Containers are numbered in the order they are created; polled is the
\* container whose status is asked, creation_id the one handed to
\* publishMedia (0: none).
IdleInstagram ==
    [phase |-> "idle", kind |-> "", items |-> 0, made |-> 0, polls |-> 0, polled |-> 0,
     wait |-> "none", creation_id |-> 0, result |-> NoResult]

InitInstagram ==
    /\ schedulerTimer = "null"
    /\ intervals = 0
    /\ scheduled_posts = <<>>
    /\ user_settings = <<>>
    /\ disk = {}
    /\ now = 0
    /\ nextId = 0
    /\ ticks = <<>>
    /\ trace = <<>>
    /\ disp = IdleInstagram

\* postToInstagram, configured and with PUBLIC_URL set, is called: the
\* request for the first container goes out.
InstagramCall ==
    /\ disp.phase = "idle"
    /\ \E kind \in {"photo", "video", "carousel"} :
       \E n \in (IF kind = "carousel" THEN 2..MaxStaged ELSE {1}) :
          disp' = [IdleInstagram EXCEPT !.phase = "creating", !.kind = kind,
                                        !.items = ContainersOf(kind, n)]
    /\ UNCHANGED <<schedVars, disk>>

\* A POST /media request completes: the next container is asked for, or the
\* last one is published (photo) or polled (video, carousel).
InstagramContainerSettle ==
    /\ disp.phase = "creating"
    /\ \E created \in BOOLEAN :
          disp' = IF ~created
                  THEN [disp EXCEPT !.phase = "returned",
                                    !.result = Failure("instagram", "Request failed")]
                  ELSE IF disp.made + 1 < disp.items
                  THEN [disp EXCEPT !.made = @ + 1]
                  ELSE IF disp.kind = "photo"
                  THEN [disp EXCEPT !.made = @ + 1, !.phase = "publishing",
                                    !.creation_id = disp.made + 1]
                  ELSE [disp EXCEPT !.made = @ + 1, !.phase = "polling", !.polls = 1,
                                    !.polled = disp.made + 1, !.wait = "polling"]
    /\ UNCHANGED <<schedVars, disk>>

\* The status request of waitForMediaReady completes.
InstagramPollSettle ==
    /\ disp.phase = "polling"
    /\ \E statusCode \in PollResponses :
          LET r == waitForMediaReady(disp.polls - 1, statusCode)
          IN  disp' =
                IF statusCode = "networkError"
                THEN [disp EXCEPT !.phase = "returned", !.wait = "failed",
                                  !.result = Failure("instagram", "Request failed")]
                ELSE IF r.next = "poll" THEN [disp EXCEPT !.polls = @ + 1]
                ELSE IF r.next = "throw"
                THEN [disp EXCEPT !.phase = "returned",
                                  !.wait = IF statusCode = "ERROR" THEN "error" ELSE "timeout",
                                  !.result = Failure("instagram", r.error)]
                ELSE [disp EXCEPT !.phase = "publishing",
                                  !.wait = IF statusCode = "FINISHED" THEN "finished"
                                           ELSE "gaveUp",
                                  !.creation_id = disp.polled]
    /\ UNCHANGED <<schedVars, disk>>

\* The media_publish request completes and postToInstagram returns.
InstagramPublishSettle ==
    /\ disp.phase = "publishing"
    /\ \E published \in BOOLEAN :
          disp' = [disp EXCEPT !.phase = "returned",
                               !.result = IF published THEN Success("instagram", "id")
                                          ELSE Failure("instagram", "Request failed")]
    /\ UNCHANGED <<schedVars, disk>>

NextInstagram ==
    \/ InstagramCall
    \/ InstagramContainerSettle
    \/ InstagramPollSettle
    \/ InstagramPublishSettle

\* The Instagram adapter, every request of which is answered.
SpecInstagram ==
    /\ InitInstagram
    /\ [][NextInstagram]_vars
    /\ WF_vars(InstagramPollSettle)

----------------------------------------------------------------------------
\* The TikTok upload: postVideo declares the upload, then sends the file.

MaxFileSize == 30

\* String(n) for an integer n.
Str(n) == IF n < 0 THEN <<Chr("-")>> \o Decimal(0 - n) ELSE Decimal(n)

\* The text "bytes ".
BytesUnit == <<98, 121, 116, 101, 115, 32>>

Slash == 47

\* source_info of the body initializeUpload posts.
initializeUpload(fileSize) ==
    [source |-> "FILE_UPLOAD", video_size |-> fileSize, chunk_size |-> fileSize,
     total_chunk_count |-> 1]

\* The headers uploadVideoChunk sends with the whole file as the body:
\* 'Content-Range': `bytes 0-${fileSize - 1}/${fileSize}`.
uploadVideoChunk(fileSize) ==
    [contentType |-> "video/mp4",
     contentLength |-> fileSize,
     contentRange |-> BytesUnit \o <<Digit(0), Chr("-")>> \o Str(fileSize - 1)
                      \o <<Slash>> \o Str(fileSize),
     bodyLength |-> fileSize]

NoRequest == [source |-> "", video_size |-> 0, chunk_size |-> 0, total_chunk_count |-> 0]

NoHeaders == [contentType |-> "", contentLength |-> 0, contentRange |-> <<>>, bodyLength |-> 0]

IdleTikTok ==
    [phase |-> "idle", size |-> 0, init |-> NoRequest, put |-> NoHeaders,
     result |-> NoResult]

InitTikTok ==
    /\ schedulerTimer = "null"
    /\ intervals = 0
    /\ scheduled_posts = <<>>
    /\ user_settings = <<>>
    /\ disk = {Mp40.path}
    /\ now = 0
    /\ nextId = 0
    /\ ticks = <<>>
    /\ trace = <<>>
    /\ disp = IdleTikTok

\* postToTikTok, configured, is called with a video of fileSize bytes
\* (fs.statSync): the init request goes out.
TikTokCall ==
    /\ disp.phase = "idle"
    /\ \E fileSize \in 0..MaxFileSize :
          disp' = [IdleTikTok EXCEPT !.phase = "initializing", !.size = fileSize,
                                     !.init = initializeUpload(fileSize)]
    /\ UNCHANGED <<schedVars, disk>>

\* The init request completes: with an error the adapter returns a failure,
\* otherwise the file is sent to the upload URL.
TikTokInitSettle ==
    /\ disp.phase = "initializing"
    /\ \E accepted \in BOOLEAN :
          disp' = IF accepted
                  THEN [disp EXCEPT !.phase = "uploading",
                                    !.put = uploadVideoChunk(disp.size)]
                  ELSE [disp EXCEPT !.phase = "returned",
                                    !.result = Failure("tiktok",
                                                       "Failed to initialize TikTok upload")]
    /\ UNCHANGED <<schedVars, disk>>

\* The upload request completes and postToTikTok returns.
TikTokUploadSettle ==
    /\ disp.phase = "uploading"
    /\ \E accepted \in BOOLEAN :
          disp' = [disp EXCEPT !.phase = "returned",
                               !.result = IF accepted THEN Success("tiktok", "id")
                                          ELSE Failure("tiktok", "Request failed")]
    /\ UNCHANGED <<schedVars, disk>>

NextTikTok == TikTokCall \/ TikTokInitSettle \/ TikTokUploadSettle

SpecTikTok == InitTikTok /\ [][NextTikTok]_vars

----------------------------------------------------------------------------
\* The settings store and the two credential bundles built from it.

\* The platforms whose fields the bodies of the model carry.
SavedPlatforms == {"facebook", "telegram", "tiktok"}

\* The bodies of POST /api/settings: each flat key absent, '' or set.
SettingsBodies ==
    LET keys == UNION {RequiredKeys(q) : q \in SavedPlatforms}
    IN  UNION {[D -> {"", "secret"}] : D \in SUBSET keys}

\* POST /api/settings: per platform of platformFields the fields the body
\* defines; a platform is upserted when one of them is not empty.
SaveSettings(table, userId, newSettings) ==
    LET platformSettings(q) ==
            [f \in {g \in platformFields[q] : (q \o "_" \o g) \in DOMAIN newSettings} |->
                newSettings[q \o "_" \o f]]
        hasValue(q) == \E f \in DOMAIN platformSettings(q) : platformSettings(q)[f] # ""
        old == getAllForUser(table, userId)
        saved == {q \in DOMAIN platformFields : hasValue(q)}
        row == [q \in saved \cup DOMAIN old |->
                   IF q \in saved THEN platformSettings(q) ELSE old[q]]
    IN  IF saved = {} THEN table
        ELSE [u \in DOMAIN table \cup {userId} |-> IF u = userId THEN row ELSE table[u]]

IdleSettings == [phase |-> "idle", user |-> "", scheduled |-> <<>>, immediate |-> <<>>]

InitSettings ==
    /\ schedulerTimer = "null"
    /\ intervals = 0
    /\ scheduled_posts = <<>>
    /\ user_settings = <<>>
    /\ disk = {}
    /\ now = 0
    /\ nextId = 0
    /\ ticks = <<>>
    /\ trace = <<>>
    /\ disp = IdleSettings

\* u1 saves settings.
SettingsSave ==
    /\ \E body \in SettingsBodies :
          user_settings' = SaveSettings(user_settings, "u1", body)
    /\ disp' = IdleSettings
    /\ UNCHANGED <<schedulerTimer, intervals, scheduled_posts, disk, now, nextId, ticks,
                   trace>>

\* The bundle processScheduledPost rebuilds for a post of user and the bundle
\* POST /api/post gets from getSettings for the same user.
SettingsBundles ==
    /\ \E user \in Users :
          disp' = [phase |-> "built", user |-> user,
                   scheduled |-> FlattenSettings(getAllForUser(user_settings, user)),
                   immediate |-> getSettings(user_settings, user)]
    /\ UNCHANGED <<schedulerTimer, intervals, scheduled_posts, user_settings, disk, now,
                   nextId, ticks, trace>>

NextSettings == SettingsSave \/ SettingsBundles

SpecSettings == InitSettings /\ [][NextSettings]_vars

----------------------------------------------------------------------------
\* The web client's submit and the two routes' reading of its platforms
\* field.  A text is a sequence of symbols: the characters [ ] " , and the
\* blank, and a platform name as one symbol (a name holds none of those
\* characters).

\* The platform checkboxes of the page, in document order.
Checkboxes == <<"facebook", "telegram", "tiktok", "instagram", "youtube">>

\* Array.from(querySelectorAll('input[name="platforms"]:checked')).map(value)
\* when the boxes at the positions in checked are ticked.
CheckedValues(checked) ==
    LET nth(k) == CHOOSE i \in checked : Cardinality({j \in checked : j < i}) = k - 1
    IN  [k \in 1..Cardinality(checked) |-> Checkboxes[nth(k)]]

Selections == {CheckedValues(c) : c \in SUBSET (1..Len(Checkboxes))}

RECURSIVE JoinItems(_)
JoinItems(list) ==
    IF list = <<>> THEN <<>>
    ELSE IF Len(list) = 1 THEN <<"\"", list[1], "\"">>
    ELSE <<"\"", list[1], "\"", ",">> \o JoinItems(Tail(list))

\* JSON.stringify of an array of names.
JSONStringify(list) == <<"[">> \o JoinItems(list) \o <<"]">>

\* String.prototype.split(sep): the pieces between the separators.
Split(text, sep) ==
    LET seps == {i \in 1..Len(text) : text[i] = sep}
        piece(k) ==
            LET idx == {i \in 1..Len(text) \ seps :
                          Cardinality({j \in seps : j < i}) = k - 1}
            IN  IF idx = {} THEN <<>>
                ELSE SubSeq(text, CHOOSE i \in idx : \A j \in idx : i <= j,
                                  CHOOSE i \in idx : \A j \in idx : j <= i)
    IN  [k \in 1..(Cardinality(seps) + 1) |-> piece(k)]

\* String.prototype.trim.
TrimText(text) ==
    LET solid == {i \in 1..Len(text) : text[i] # " "}
    IN  IF solid = {} THEN <<>>
        ELSE SubSeq(text, CHOOSE i \in solid : \A j \in solid : i <= j,
                          CHOOSE i \in solid : \A j \in solid : j <= i)

\* The name a platform string is when written as a text.
NameText(name) == <<name>>

\* POST /api/post on a platforms field that is a text:
\* platformsRaw.split(',').map(p => p.trim()).
PublishDecode(field) ==
    LET pieces == Split(field, ",")
    IN  [threw |-> FALSE, platforms |-> [k \in 1..Len(pieces) |-> TrimText(pieces[k])]]

\* JSON.parse of a text: an array of strings, or it throws.
JSONParse(text) ==
    IF Len(text) < 2 \/ text[1] # "[" \/ text[Len(text)] # "]"
    THEN [threw |-> TRUE, platforms |-> <<>>]
    ELSE LET inner == SubSeq(text, 2, Len(text) - 1)
             items == IF inner = <<>> THEN <<>> ELSE Split(inner, ",")
             wellFormed(item) ==
                 Len(item) = 3 /\ item[1] = "\"" /\ item[3] = "\""
                     /\ item[2] \notin {"[", "]", "\"", ",", " "}
         IN  IF \A k \in 1..Len(items) : wellFormed(items[k])
             THEN [threw |-> FALSE,
                   platforms |-> [k \in 1..Len(items) |-> NameText(items[k][2])]]
             ELSE [threw |-> TRUE, platforms |-> <<>>]

\* POST /api/scheduled on a platforms field that is a text.
ScheduleDecode(field) == JSONParse(field)

IdleClient ==
    [phase |-> "idle", endpoint |-> "", selected |-> <<>>, field |-> <<>>,
     threw |-> FALSE, platforms |-> <<>>]

InitClient ==
    /\ schedulerTimer = "null"
    /\ intervals = 0
    /\ scheduled_posts = <<>>
    /\ user_settings = <<>>
    /\ disk = {}
    /\ now = 0
    /\ nextId = 0
    /\ ticks = <<>>
    /\ trace = <<>>
    /\ disp = IdleClient

\* handleSubmit with at least one box ticked: the form goes to /api/post, or
\* to /api/scheduled when the schedule toggle is on.
ClientSubmit ==
    /\ disp.phase = "idle"
    /\ \E selected \in Selections \ {<<>>}, endpoint \in {"/api/post", "/api/scheduled"} :
          disp' = [IdleClient EXCEPT !.phase = "sent", !.endpoint = endpoint,
                                     !.selected = selected,
                                     !.field = JSONStringify(selected)]
    /\ UNCHANGED <<schedulerTimer, intervals, scheduled_posts, user_settings, disk, now,
                   nextId, ticks, trace>>

\* The route the form was sent to reads the platforms field.
RouteDecode ==
    /\ disp.phase = "sent"
    /\ LET r == IF disp.endpoint = "/api/post" THEN PublishDecode(disp.field)
                ELSE ScheduleDecode(disp.field)
       IN  disp' = [disp EXCEPT !.phase = "decoded", !.threw = r.threw,
                                !.platforms = r.platforms]
    /\ UNCHANGED <<schedulerTimer, intervals, scheduled_posts, user_settings, disk, now,
                   nextId, ticks, trace>>

NextClient == ClientSubmit \/ RouteDecode

SpecClient == InitClient /\ [][NextClient]_vars

----------------------------------------------------------------------------
\* Claims about the dispatcher (checked under SpecDispatch).

\* C1: a finished postToAllPlatforms call on a platform list P and non-empty
\* media resolved to exactly Len(P) results, and the i-th result is the one
\* the adapter invocation for P[i] settled with, whatever the settle order.
C1_ResultsInRequestOrder ==
    DispatchDone =>
        /\ disp.out.state = "resolved"
        /\ Len(disp.out.results) = Len(disp.platforms)
        /\ \A i \in 1..Len(disp.platforms) :
              /\ disp.call.platforms[i] = disp.platforms[i]
              /\ disp.call.promises[i].state = "fulfilled" =>
                    disp.out.results[i] = disp.call.promises[i].value
              /\ disp.call.promises[i].state = "rejected" =>
                    disp.out.results[i].platform = disp.platforms[i]

\* C1 witness: two adapters went to the network, the second slot settled
\* first, and the two settled differently.
C1_Witness ==
    /\ DispatchDone
    /\ Len(disp.platforms) >= 2
    /\ disp.call.order[1] = 2
    /\ disp.call.order[2] = 1
    /\ disp.out.results[1].success
    /\ ~disp.out.results[2].success
    /\ disp.out.results[1].platform # disp.out.results[2].platform

\* C2: when the adapter invocation of a slot rejected, the call still
\* resolved; that slot holds a failure tagged with the requested platform and
\* every other slot holds exactly what its own adapter produced.
C2_RejectionIsolated ==
    (DispatchDone /\ \E i \in 1..Len(disp.platforms) :
                        disp.call.promises[i].state = "rejected") =>
        /\ disp.out.state = "resolved"
        /\ Len(disp.out.results) = Len(disp.platforms)
        /\ \A i \in 1..Len(disp.platforms) :
              IF disp.call.promises[i].state = "rejected"
              THEN /\ ~disp.out.results[i].success
                   /\ disp.out.results[i].platform = disp.platforms[i]
                   /\ disp.out.results[i].error # ""
              ELSE disp.out.results[i] = disp.call.promises[i].value

\* C2 witness: one slot rejected while another slot's adapter succeeded.
C2_Witness ==
    /\ DispatchDone
    /\ \E i, j \in 1..Len(disp.platforms) :
          /\ disp.call.promises[i].state = "rejected"
          /\ disp.call.promises[j].state = "fulfilled"
          /\ disp.call.promises[j].value.success
          /\ disp.out.state = "resolved"
          /\ disp.out.results[j].success

\* C3: in a finished call every slot whose platform name is none of the five
\* known names (compared in lower case) holds success=false with the error
\* 'Unknown platform: <name>', and the call resolved rather than threw.
C3_UnknownPlatform ==
    DispatchDone =>
        /\ disp.out.state = "resolved"
        /\ \A i \in 1..Len(disp.platforms) :
              (IsString(disp.platforms[i])
               /\ ToLowerCase(disp.platforms[i]) \notin KnownPlatforms) =>
                  /\ i <= Len(disp.out.results)
                  /\ disp.out.results[i] =
                        [success |-> FALSE, platform |-> disp.platforms[i],
                         error |-> "Unknown platform: " \o disp.platforms[i],
                         postId |-> ""]

\* C3 witness: an unknown name next to an adapter that succeeded.
C3_Witness ==
    /\ DispatchDone
    /\ \E i, j \in 1..Len(disp.platforms) :
          /\ disp.platforms[i] = "unknownplat"
          /\ disp.out.results[i].error = "Unknown platform: unknownplat"
          /\ disp.out.results[j].success

----------------------------------------------------------------------------
\* Claims about the scheduler and the store (checked under Spec).

Terminal == {"completed", "partial", "failed"}

\* C4: every status write the scheduler applies keeps to pending ->
\* processing -> {completed, partial, failed}: none writes pending, processing
\* is written only over pending, and a completed, partial or failed status
\* is never replaced by another.
C4_StatusLifecycle ==
    \A k \in 1..Len(trace) :
        (trace[k].ev = "write" /\ trace[k].from # "absent") =>
            /\ trace[k].to # "pending"
            /\ trace[k].to = "processing" => trace[k].from = "pending"
            /\ trace[k].from \in Terminal => trace[k].to = trace[k].from

\* C5: at most one activation of the scheduler is waiting for the dispatch
\* of a post it marked processing.
C5_OneIntentInFlight == Len(ticks) <= 1

\* C6: a stored result sequence goes with status completed exactly when
\* every result succeeded, and with status partial exactly when at least one
\* succeeded and at least one failed.
C6_OutcomeClassified ==
    \A id \in DOMAIN scheduled_posts :
        LET row == scheduled_posts[id]
            some == \E i \in 1..Len(row.result.results) : row.result.results[i].success
            all == \A i \in 1..Len(row.result.results) : row.result.results[i].success
        IN  row.result.kind = "results" =>
                /\ row.status = "completed" <=> all
                /\ row.status = "partial" <=> (some /\ ~all)

\* The last macrotask ran processScheduledPost(id) into an exception before
\* the dispatcher had returned results.
ThrewBeforeResults(id) ==
    \E k \in 1..Len(trace) :
        /\ trace[k].id = id
        /\ \/ trace[k].ev = "updateStatusThrew" /\ trace[k].to = "processing"
           \/ trace[k].ev = "getAllForUserThrew"
           \/ trace[k].ev = "dispatchThrew"

\* C7: when processScheduledPost threw before the dispatcher returned
\* results, the post is left failed with an error description as its result,
\* and processScheduledPost returned rather than threw.
C7_FailureRecorded ==
    \A id \in Ids :
        ThrewBeforeResults(id) =>
            /\ ~\E k \in 1..Len(trace) : trace[k].ev = "processThrew" /\ trace[k].id = id
            /\ id \in DOMAIN scheduled_posts =>
                  /\ scheduled_posts[id].status = "failed"
                  /\ scheduled_posts[id].result.kind = "error"

\* C8: an error while one due post is processed does not keep the tick from
\* processing the other posts of its list: no tick ends with posts of its
\* list it never reached.
C8_SiblingsStillProcessed ==
    \A k \in 1..Len(trace) : trace[k].ev = "tickError" => trace[k].id = 0

\* The posts a getPending call at this moment is meant to return.
DueNow ==
    {id \in DOMAIN scheduled_posts :
        /\ scheduled_posts[id].status = "pending"
        /\ AtOrBefore(scheduled_posts[id].requested_for, Clock(now))}

\* C9: a tick whose getPending call throws ends without an unhandled
\* exception and leaves the timer armed, and the tick that follows it takes up
\* every post the store then reports as due.
C9_TickSurvivesQueryFailure ==
    /\ [](Happened(trace, "getPendingThrew") =>
            /\ schedulerTimer = "armed"
            /\ ~Happened(trace, "unhandledRejection")
            /\ Happened(trace, "tickError"))
    /\ [][(Happened(trace, "getPendingThrew") /\ Happened(trace', "tickBegin")) =>
            \E posts \in getPending(scheduled_posts, Clock(now)) :
                \E k \in 1..Len(trace') :
                    trace'[k].ev = "tickBegin" /\ trace'[k].id = Len(posts)]_vars

\* C9 witness: the timer fired right after a tick whose query failed, and
\* that next tick marked a due post processing.
C9_Witness ==
    /\ Len(trace) > 0
    /\ trace[1].ev = "timerFire"
    /\ trace[1].to = "afterQueryFailure"
    /\ \E k \in 1..Len(trace) :
          trace[k].ev = "write" /\ trace[k].from = "pending" /\ trace[k].to = "processing"

\* C10: every list getPending can return holds exactly the pending posts
\* whose fire time is at or before now, earliest fire time first.
C10_GetPendingExact ==
    \A posts \in getPending(scheduled_posts, Clock(now)) :
        /\ {posts[k].id : k \in 1..Len(posts)} = DueNow
        /\ \A i, j \in 1..Len(posts) :
              i < j => AtOrBefore(scheduled_posts[posts[i].id].requested_for,
                                  scheduled_posts[posts[j].id].requested_for)

----------------------------------------------------------------------------
\* Claims about delivery (checked under SpecLive).

\* C11: while the scheduler runs, a stored post that is pending with its
\* fire time passed eventually has a final status (or is cancelled, or the
\* scheduler is stopped).
C11_AtLeastOnce ==
    \A id \in Ids :
        (/\ schedulerTimer = "armed"
         /\ id \in DOMAIN scheduled_posts
         /\ scheduled_posts[id].status = "pending"
         /\ AtOrBefore(scheduled_posts[id].requested_for, Clock(now)))
        ~> (\/ schedulerTimer = "null"
            \/ id \notin DOMAIN scheduled_posts
            \/ scheduled_posts[id].status \in Terminal)

----------------------------------------------------------------------------
\* Claims about the routes of /api/scheduled.

NotCancellable(user, id) ==
    \/ id \notin DOMAIN scheduled_posts
    \/ scheduled_posts[id].user_id # user
    \/ scheduled_posts[id].status # "pending"

\* C13 (checked under SpecCancel): a cancel request for a post that does not
\* exist, belongs to someone else or is not pending is answered with an error
\* and changes neither the store nor the files.
C13_CancelRejected ==
    [][\A user \in Users, id \in Ids, dbFails \in {"none", "findById", "delete"} :
        \A unlinkFails \in SUBSET MediaOf(scheduled_posts, id) :
            (CancelRoute(user, id, unlinkFails, dbFails) /\ NotCancellable(user, id))
            => /\ trace'[1].to \in {"400", "403", "404", "500"}
               /\ scheduled_posts' = scheduled_posts
               /\ disk' = disk]_vars

\* C13 witness: a cancel request was just answered 400 for a post that is
\* processing, and the post and its files are still there.
C13_Witness ==
    /\ Len(trace) = 1
    /\ trace[1].ev = "cancel"
    /\ trace[1].to = "400"
    /\ \E id \in DOMAIN scheduled_posts :
          /\ scheduled_posts[id].status = "processing"
          /\ MediaOf(scheduled_posts, id) \subseteq disk

\* C14 (checked under Spec): a schedule request whose fire time is missing,
\* unreadable or not in the future creates no post and leaves none of its
\* uploaded files on disk.
C14_RejectedScheduleLeavesNothing ==
    [][\A files \in ScheduleFiles(nextId + 1), platforms \in SchedulePlatforms,
         scheduledAt \in ScheduleTimes, dbFails \in BOOLEAN :
            (/\ ScheduleRoute("u1", files, platforms, scheduledAt, dbFails)
             /\ \/ ~scheduledAt.given
                \/ ~scheduledAt.valid
                \/ AtOrBefore(scheduledAt.at, Clock(now)))
            => /\ scheduled_posts' = scheduled_posts
               /\ \A i \in 1..Len(files) : files[i].path \notin disk']_vars

----------------------------------------------------------------------------
\* Claims about POST /api/post (checked under SpecPublish).

\* A request that fails input validation: no media, photos mixed with videos,
\* more than one video, too many photos, a file of an unsupported type or
\* size, or no platform selected.
InvalidRequest(files, raw) ==
    LET photos == {i \in 1..Len(files) : files[i].mimetype.type = "image"}
        videos == {i \in 1..Len(files) : files[i].mimetype.type = "video"}
    IN  \/ files = <<>>
        \/ photos # {} /\ videos # {}
        \/ Cardinality(videos) > 1
        \/ Cardinality(photos) > maxPhotos
        \/ \E i \in 1..Len(files) : i \notin photos \cup videos
        \/ \E i \in photos :
              files[i].mimetype \notin allowedImageTypes \/ files[i].size > maxPhotoSize
        \/ \E i \in videos :
              files[i].mimetype \notin allowedVideoTypes \/ files[i].size > maxVideoSize
        \/ raw.kind = "undefined"
        \/ raw.kind \in {"array", "string"} /\ \A i \in 1..Len(raw.items) : Trim(raw.items[i]) = ""

\* The call reached the adapter of at least one platform.
AdapterInvoked(call) ==
    \E i \in 1..Len(call.platforms) :
        ToLowerCase(call.platforms[i]) \in {"facebook", "telegram", "tiktok"}

C16_ResponseReflectsResults ==
    (disp.phase = "done" /\ disp.call # NoCall) =>
        LET results == PostResults(disp.call)
            n == Cardinality({i \in 1..Len(results) : results[i].success})
        IN  /\ disp.response.status \in {"200", "500"}
            /\ disp.response.status = "500" <=> n = 0
            /\ disp.response.success <=> n = Len(results)
            /\ disp.response.partialSuccess <=> (0 < n /\ n < Len(results))
            /\ disp.response.results = results
            /\ ~disp.response.errors

\* C16 witness: facebook succeeded and telegram failed; the answer is 200 with
\* partialSuccess.
C16_Witness ==
    /\ disp.phase = "done"
    /\ disp.call # NoCall
    /\ disp.response.status = "200"
    /\ disp.response.partialSuccess
    /\ ~disp.response.success
    /\ Len(disp.response.results) = 2

----------------------------------------------------------------------------
\* Claims about the adapters (checked under SpecAdapters).

CredentialsIncomplete(adapter, userSettings) ==
    \E k \in RequiredKeys(adapter) : Get(userSettings, k) = ""

NotConfigured(adapter) ==
    CASE adapter = "facebook" -> "Facebook credentials not configured"
      [] adapter = "telegram" -> "Telegram credentials not configured"
      [] adapter = "tiktok" -> "TikTok credentials not configured"
      [] adapter = "instagram" -> "Instagram credentials not configured"

\* The call in disp gave the same answer whether the media files exist or not.
IgnoresMedia ==
    Adapter(disp.adapter, disp.files, disp.mediaType, disp.settings, {}, disp.publicUrl)
        = Adapter(disp.adapter, disp.files, disp.mediaType, disp.settings,
                  PathsOf(disp.files), disp.publicUrl)

\* C17: an adapter called with a required credential field absent
\* or empty resolves to the failure "<Platform> credentials not configured",
\* for every media kind, without a network call and without reading a file.
C17_MissingCredentialsFailFast ==
    (disp.phase # "idle" /\ CredentialsIncomplete(disp.adapter, disp.settings)) =>
        /\ disp.phase = "returned"
        /\ ~disp.networkCall
        /\ disp.promise = Fulfilled(Failure(disp.adapter, NotConfigured(disp.adapter)))
        /\ IgnoresMedia

----------------------------------------------------------------------------
\* Claims about the slots of one dispatch (checked under SpecDispatch).

\* The entry p of a platform list does not name platform X.
NotPlatform(p, X) == ~(IsString(p) /\ ToLowerCase(p) = X)

\* The userSettings objects that differ from us at most in X's credentials.
DiffersOnlyOn(us, X) ==
    {us2 \in [CredKeys -> {"", "secret"}] :
        \A k \in CredKeys \ RequiredKeys(X) : us2[k] = us[k]}

\* The platform list without the entries that name X.
Without(platforms, X) == SelectSeq(platforms, LAMBDA p : NotPlatform(p, X))

\* The result of slot j of a call started as `call`, when the external
\* service behaves as it did for the settled promise `seen`.
ResultUnder(call, j, seen) ==
    IF IsSettled(call.promises[j])
    THEN SlotResult(call, j)
    ELSE IF seen.state = "fulfilled" /\ seen.value \in IoOutcomes(call.promises[j])
         THEN SlotResult(SettleSlot(call, j, seen.value), j)
         ELSE NoResult

\* C18: take a finished call, a platform X, and a second call with the same
\* media that differs from it only in X's credentials, or in X's entries
\* being left out of the platform list.  For every slot of the finished call
\* that holds another platform Y, the second call starts the same work in
\* Y's slot, and with Y's service behaving as it did it puts there the result
\* that the finished call reports.
C18_SlotsDoNotInterfere ==
    DispatchDone =>
        \A X \in KnownPlatforms :
        \A us2 \in DiffersOnlyOn(disp.settings, X) :
        \A present \in BOOLEAN :
            LET platforms2 == IF present THEN disp.platforms
                              ELSE Without(disp.platforms, X)
                call1 == postToAllPlatformsStart(disp.platforms, disp.files,
                                                 disp.settings, disk).call
                call2 == postToAllPlatformsStart(platforms2, disp.files, us2, disk).call
            IN  \A i \in 1..Len(disp.platforms) :
                    NotPlatform(disp.platforms[i], X) =>
                        LET j == IF present THEN i
                                 ELSE Len(Without(SubSeq(disp.platforms, 1, i), X))
                        IN  /\ call2.platforms[j] = disp.platforms[i]
                            /\ call2.promises[j] = call1.promises[i]
                            /\ ResultUnder(call2, j, disp.call.promises[i])
                                  = disp.out.results[i]

\* C18 witness: a finished call in which Telegram's credentials are
\* incomplete and Facebook's slot, after it, reports a success.
C18_Witness ==
    /\ DispatchDone
    /\ disp.platforms = <<"Telegram", "facebook">>
    /\ disp.settings["telegram_chat_id"] = ""
    /\ disp.out.results[1] = Failure("telegram", "Telegram credentials not configured")
    /\ disp.out.results[2].success

----------------------------------------------------------------------------
\* Claims about starting and stopping the scheduler (checked under Spec).

\* The activations of runSchedulerTick that began in a macrotask: each one
\* calls getPending, which returns or throws.
TicksBegun(tr) ==
    Cardinality({i \in 1..Len(tr) : tr[i].ev \in {"tickBegin", "getPendingThrew"}})

\* C19: a call of startScheduler with the scheduler stopped begins exactly
\* one tick in the call and leaves exactly one interval timer armed; a call
\* with the scheduler running begins no tick and changes nothing; and no
\* step ever leaves more than one interval timer armed.
C19_StartIdempotent ==
    [][/\ StartScheduler =>
            IF schedulerTimer = "null"
            THEN /\ TicksBegun(trace') = 1
                 /\ schedulerTimer' = "armed"
                 /\ intervals' = 1
            ELSE /\ TicksBegun(trace') = 0
                 /\ UNCHANGED <<schedulerTimer, intervals, scheduled_posts, user_settings,
                                disk, now, nextId, ticks>>
       /\ intervals' <= 1]_vars

\* C19 witness: startScheduler has just been called on the running scheduler,
\* which still has its one timer.
C19_Witness ==
    /\ trace = <<Ev("alreadyRunning", 0, "", "")>>
    /\ schedulerTimer = "armed"
    /\ intervals = 1

\* C20: a call of stopScheduler leaves no handle and no interval timer, and
\* changes nothing at all when the scheduler was stopped; and while the
\* scheduler is stopped, a step in which a tick begins is a call of
\* startScheduler.
C20_StopCancelsTimer ==
    [][/\ StopScheduler =>
            /\ schedulerTimer' = "null"
            /\ intervals' = 0
            /\ schedulerTimer = "null" =>
                  UNCHANGED <<schedulerTimer, intervals, scheduled_posts, user_settings,
                              disk, now, nextId, ticks>>
            /\ UNCHANGED <<scheduled_posts, ticks, disk>>
       /\ (schedulerTimer = "null" /\ TicksBegun(trace') > 0) =>
              (trace'[1].ev = "start" /\ schedulerTimer' = "armed")]_vars

\* C20 witness: stopScheduler has just stopped the scheduler while a tick it
\* had begun is still waiting for an adapter.
C20_Witness ==
    /\ trace = <<Ev("stopped", 0, "", "")>>
    /\ schedulerTimer = "null"
    /\ intervals = 0
    /\ ticks # <<>>

----------------------------------------------------------------------------
\* Claims about what a tick touches (checked under Spec).

\* C21: a step in which a tick begins while no row satisfies the condition
\* of the getPending query changes neither the store nor the disk, writes
\* nothing, invokes no dispatcher and leaves no activation behind; so any
\* number of such ticks leave what no tick leaves.
C21_EmptyTickIsNoOp ==
    [][(/\ TicksBegun(trace') > 0
        /\ \A id \in DOMAIN scheduled_posts : ~IsDue(scheduled_posts[id], Clock(now)))
       => /\ UNCHANGED <<scheduled_posts, user_settings, disk, now, nextId, ticks>>
          /\ ~Happened(trace', "write")
          /\ ~Happened(trace', "updateStatusThrew")
          /\ ~Happened(trace', "dispatch")]_vars

\* C21 witness: the timer has fired a tick that found nothing due although a
\* pending post is stored.
C21_Witness ==
    /\ trace = <<Ev("timerFire", 0, "", ""), Ev("tickBegin", 0, "", ""),
                 Ev("tickEnd", 0, "", "")>>
    /\ \E id \in DOMAIN scheduled_posts : scheduled_posts[id].status = "pending"

----------------------------------------------------------------------------
\* Claims about the media the dispatcher is given.

\* The files processScheduledPost hands to the dispatcher for a post.
ReplayedFiles(post) ==
    [i \in 1..Len(post.media_paths) |->
        File(post.media_paths[i], getMimeType(post.media_paths[i]))]

\* All images, or exactly one video.
UniformMedia(files) ==
    \/ \A i \in 1..Len(files) : isImage(files[i].mimetype)
    \/ Len(files) = 1 /\ isVideo(files[1].mimetype)

\* C22 (checked under SpecReplay): whenever an activation of the scheduler
\* waits for the dispatcher, the media it handed over for that post are all
\* images or exactly one video.
C22_DispatchedMediaUniform ==
    \A k \in 1..Len(ticks) :
        UniformMedia(ReplayedFiles(ticks[k].posts[ticks[k].idx]))

----------------------------------------------------------------------------
\* Claims about fire times (checked under Spec).

\* C23: a step marks a stored post processing, or hands it to the
\* dispatcher, only when the time the post was scheduled for is at or before
\* the clock; and a step stores a post only with a time after the clock.
C23_NotBeforeFireTime ==
    [][/\ \A k \in 1..Len(trace') :
            (/\ \/ trace'[k].ev = "dispatch"
                \/ trace'[k].ev = "write" /\ trace'[k].to = "processing"
             /\ trace'[k].id \in DOMAIN scheduled_posts)
            => AtOrBefore(scheduled_posts[trace'[k].id].requested_for, Clock(now))
       /\ \A id \in DOMAIN scheduled_posts' \ DOMAIN scheduled_posts :
            ~AtOrBefore(scheduled_posts'[id].requested_for, Clock(now))]_vars

----------------------------------------------------------------------------
\* Claims about what the adapters send (checked under SpecAdapters).

\* C24: postToTikTok called with media kind photo has returned the failure
\* 'TikTok only supports video uploads' without a network call, and the same
\* whether the files exist or not (it read none).
C24_TikTokRejectsPhoto ==
    (disp.phase # "idle" /\ disp.adapter = "tiktok" /\ disp.mediaType = "photo") =>
        /\ disp.phase = "returned"
        /\ ~disp.networkCall
        /\ disp.promise = Fulfilled(Failure("tiktok", "TikTok only supports video uploads"))
        /\ IgnoresMedia

\* C24 witness: TikTok, fully configured, was called with two photos that are
\* on disk and has returned.
C24_Witness ==
    /\ disp.phase = "returned"
    /\ disp.adapter = "tiktok"
    /\ disp.mediaType = "photo"
    /\ Len(disp.files) = 2
    /\ ~CredentialsIncomplete("tiktok", disp.settings)
    /\ PathsOf(disp.files) \subseteq disk
    /\ ~disp.promise.value.success

----------------------------------------------------------------------------
\* Claims about the Facebook multi-photo path (checked under SpecFacebook).

\* C25: a request to /feed has been made only when every photo of the call
\* is staged; and once the staging of a photo has failed, no request to
\* /feed exists and the adapter has returned a failure.
C25_FeedPostAfterAllStaged ==
    /\ disp.feed # "none" => \A i \in 1..Len(disp.staged) : disp.staged[i] = "staged"
    /\ (\E i \in 1..Len(disp.staged) : disp.staged[i] = "failed") =>
          /\ disp.feed = "none"
          /\ disp.phase = "returned"
          /\ ~disp.result.success

\* C25 witness: of three photos one was staged, then one failed, and the
\* third request is still in flight after the adapter returned.
C25_Witness ==
    /\ Len(disp.staged) = 3
    /\ \E i, j, k \in 1..3 :
          /\ disp.staged[i] = "staged"
          /\ disp.staged[j] = "failed"
          /\ disp.staged[k] = "inflight"
    /\ disp.phase = "returned"

----------------------------------------------------------------------------
\* Claims about the Instagram paths (checked under SpecInstagram).

\* C26: waitForMediaReady never issues more than maxAttempts status polls,
\* it has failed with a time-out whenever it ended on a poll that was neither
\* FINISHED nor ERROR, and, its polls being answered, it always ends.
C26_PollingBounded ==
    /\ [](disp.polls <= maxAttempts)
    /\ [](disp.wait = "timeout" =>
            /\ disp.polls = maxAttempts
            /\ disp.phase = "returned"
            /\ disp.result = Failure("instagram", "Media processing timed out"))
    /\ (disp.phase = "polling") ~> (disp.phase # "polling")

\* C26 witness: the wait has timed out after maxAttempts polls.
C26_Witness ==
    /\ disp.wait = "timeout"
    /\ disp.polls = maxAttempts
    /\ disp.phase = "returned"

\* C27: in the video and carousel paths a container is handed to
\* publishMedia only when a status poll of that very container returned
\* FINISHED; and when the wait ended on ERROR, on a failed request or on the
\* attempt bound, nothing was handed to publishMedia and the adapter
\* returned a failure.
C27_PublishOnlyWhenFinished ==
    /\ (disp.kind \in {"video", "carousel"} /\ disp.creation_id # 0) =>
          /\ disp.wait = "finished"
          /\ disp.polled = disp.creation_id
          /\ disp.creation_id = disp.items
    /\ disp.wait \in {"error", "timeout", "failed"} =>
          /\ disp.creation_id = 0
          /\ disp.phase = "returned"
          /\ ~disp.result.success

\* C27 witness: a carousel of three items was published after its container,
\* the fourth, was reported FINISHED on a later poll than the first.
C27_Witness ==
    /\ disp.kind = "carousel"
    /\ disp.items = 4
    /\ disp.polls > 1
    /\ disp.wait = "finished"
    /\ disp.creation_id = 4
    /\ disp.phase = "returned"
    /\ disp.result.success

----------------------------------------------------------------------------
\* Claims about the TikTok upload (checked under SpecTikTok).

IsDigits(text) == text # <<>> /\ \A i \in 1..Len(text) : text[i] \in 48..57

RECURSIVE ToNat(_)
ToNat(text) == IF text = <<>> THEN 0 ELSE 10 * ToNat(SubSeq(text, 1, Len(text) - 1))
                                          + (text[Len(text)] - 48)

\* The position of the first c in text, or 0.
IndexOf(text, c) ==
    IF \E i \in 1..Len(text) : text[i] = c
    THEN CHOOSE i \in 1..Len(text) : text[i] = c /\ \A j \in 1..(i - 1) : text[j] # c
    ELSE 0

\* A Content-Range header "bytes first-last/total" read back: the three
\* numbers, and whether the text has that form.
ParseContentRange(text) ==
    LET rest == SubSeq(text, Len(BytesUnit) + 1, Len(text))
        dash == IndexOf(rest, Chr("-"))
        afterDash == SubSeq(rest, dash + 1, Len(rest))
        slash == IndexOf(afterDash, Slash)
        first == SubSeq(rest, 1, dash - 1)
        last == SubSeq(afterDash, 1, slash - 1)
        total == SubSeq(afterDash, slash + 1, Len(afterDash))
        ok == /\ Len(text) > Len(BytesUnit)
              /\ SubSeq(text, 1, Len(BytesUnit)) = BytesUnit
              /\ dash > 0 /\ slash > 0
              /\ IsDigits(first) /\ IsDigits(last) /\ IsDigits(total)
    IN  IF ok
        THEN [ok |-> TRUE, first |-> ToNat(first), last |-> ToNat(last), total |-> ToNat(total)]
        ELSE [ok |-> FALSE, first |-> 0, last |-> 0, total |-> 0]

\* C28: the init request of an upload declares one chunk of the size of the
\* file, and the upload request carries a Content-Range that reads as
\* bytes 0-(s-1)/s with first <= last <= total - 1 and a body of s bytes.
C28_SingleChunkWholeFile ==
    /\ disp.phase # "idle" =>
          /\ disp.init.video_size = disp.size
          /\ disp.init.chunk_size = disp.size
          /\ disp.init.total_chunk_count = 1
    /\ disp.put # NoHeaders =>
          LET range == ParseContentRange(disp.put.contentRange)
          IN  /\ range.ok
              /\ range.first = 0
              /\ range.last = disp.size - 1
              /\ range.total = disp.size
              /\ range.first <= range.last
              /\ range.last <= range.total - 1
              /\ disp.put.bodyLength = disp.size

----------------------------------------------------------------------------
\* Claims about how often an intent is dispatched (checked under Spec).

\* C29: postToAllPlatforms has been called at most once for every stored
\* post.
C29_DispatchedAtMostOnce ==
    \A id \in DOMAIN scheduled_posts : scheduled_posts[id].dispatches <= 1

\* C30: a step calls postToAllPlatforms only for a post that is stored (a
\* cancel that succeeded removed the row, and ids are not used again) and
\* whose media files are all on disk.  A cancelled post cannot be marked
\* processing apart from that: the UPDATE finds no row.
C30_CancelledNeverDispatched ==
    [][\A k \in 1..Len(trace') :
          trace'[k].ev = "dispatch" =>
              /\ trace'[k].id \in DOMAIN scheduled_posts
              /\ MediaOf(scheduled_posts, trace'[k].id) \subseteq disk]_vars

----------------------------------------------------------------------------
\* Claims about the stored result (checked under Spec).

\* C31: the result of every stored post is null while its status is pending
\* or processing, a result sequence with one result per requested platform
\* when the status is completed or partial, and an error description when
\* the status is failed.
C31_PayloadMatchesStatus ==
    \A id \in DOMAIN scheduled_posts :
        LET row == scheduled_posts[id]
        IN  /\ row.status \in {"pending", "processing"} => row.result = NullPayload
            /\ row.status \in {"completed", "partial"} =>
                  /\ row.result.kind = "results"
                  /\ row.result.error = ""
                  /\ Len(row.result.results) = Len(row.platforms)
            /\ row.status = "failed" =>
                  /\ row.result.kind = "error"
                  /\ row.result.error # ""
                  /\ row.result.results = <<>>

\* C31 witness: one post has failed with an error description while another
\* ended with the results of its dispatch.
C31_Witness ==
    \E i, j \in DOMAIN scheduled_posts :
        /\ scheduled_posts[i].status = "failed"
        /\ scheduled_posts[i].result.kind = "error"
        /\ scheduled_posts[j].status \in {"completed", "partial"}
        /\ scheduled_posts[j].result.results # <<>>

----------------------------------------------------------------------------
\* Claims about the files of an immediate publish (checked under SpecPublish).

----------------------------------------------------------------------------
\* Claims about a stopped scheduler and about intents left in processing.

\* C33: while the scheduler is stopped, a step that is not a call of
\* startScheduler moves no intent from pending to processing and starts no
\* dispatch.
C33_StoppedSchedulerIsQuiet ==
    [][(/\ schedulerTimer = "null"
        /\ ~(trace' # <<>> /\ trace'[1].ev = "start")) =>
            \A i \in 1..Len(trace') :
                /\ trace'[i].ev # "dispatch"
                /\ ~(/\ trace'[i].ev = "write"
                     /\ trace'[i].from = "pending"
                     /\ trace'[i].to = "processing")]_vars

\* C34: while the scheduler runs, a stored post that is processing
\* eventually has a final status (or the scheduler is stopped, or its
\* process ends); in particular a post that is processing when a new process
\* has started the scheduler eventually has a final status.
C34_ProcessingEnds ==
    \A id \in Ids :
        (/\ schedulerTimer = "armed"
         /\ id \in DOMAIN scheduled_posts
         /\ scheduled_posts[id].status = "processing")
        ~> (\/ schedulerTimer = "null"
            \/ id \notin DOMAIN scheduled_posts
            \/ scheduled_posts[id].status \in Terminal)

----------------------------------------------------------------------------
\* Claims about what the schedule route stores.

\* C35 (checked under SpecReplay): every stored post has a platform to post to, and a completed post
\* has at least one platform result, each of them a success.
C35_CompletedHasResults ==
    \A id \in DOMAIN scheduled_posts :
        LET row == scheduled_posts[id]
        IN  /\ row.platforms # <<>>
            /\ row.status = "completed" =>
                  /\ row.result.results # <<>>
                  /\ \A i \in 1..Len(row.result.results) : row.result.results[i].success

\* C36 (checked under SpecNamed): when the schedule route stores a post,
\* every stored path gives, through getMimeType, the kind (video or not) of
\* the MIME type the file was uploaded with.
C36_ReplayKindMatchesUpload ==
    [][\A files \in NamedUploads(nextId + 1) :
          (/\ ScheduleMediaRequest(files, <<"facebook">>)
           /\ nextId' \in DOMAIN scheduled_posts') =>
              LET replayed == ReplayedFiles(scheduled_posts'[nextId'])
              IN  /\ Len(replayed) = Len(files)
                  /\ \A i \in 1..Len(files) :
                        isVideo(replayed[i].mimetype) = isVideo(files[i].mimetype)]_vars

----------------------------------------------------------------------------
\* Claims about the credential bundles (checked under SpecSettings).

\* C37: the bundle rebuilt for a scheduled post and the bundle getSettings
\* builds for the same user give every adapter the same value for each of
\* its credential fields, and so the same answer to whether a field is
\* missing.
C37_BundlesAgree ==
    disp.phase = "built" =>
        \A adapter \in DOMAIN platformFields :
            /\ \A k \in RequiredKeys(adapter) :
                  Get(disp.scheduled, k) = Get(disp.immediate, k)
            /\ CredentialsIncomplete(adapter, disp.scheduled)
                  <=> CredentialsIncomplete(adapter, disp.immediate)

\* C37 witness: the bundles were built for a user who has saved complete
\* Facebook credentials and nothing for Telegram, whose keys the rebuilt
\* bundle lacks and getSettings fills with ''.
C37_Witness ==
    /\ disp.phase = "built"
    /\ ~CredentialsIncomplete("facebook", disp.scheduled)
    /\ "telegram_bot_token" \notin DOMAIN disp.scheduled
    /\ "telegram_bot_token" \in DOMAIN disp.immediate
    /\ CredentialsIncomplete("telegram", disp.immediate)

----------------------------------------------------------------------------
\* Claims about cancel under faults (checked under SpecCancel).

\* C38: a cancel request leaves every stored post whose media were all on
\* disk either removed with all of its media, or stored with all of its
\* media; and after every step each pending post has all of its media on
\* disk.
C38_CancelAllOrNothing ==
    [][/\ (trace' # <<>> /\ trace'[1].ev = "cancel") =>
            \A id \in DOMAIN scheduled_posts :
                MediaOf(scheduled_posts, id) \subseteq disk =>
                    \/ /\ id \notin DOMAIN scheduled_posts'
                       /\ MediaOf(scheduled_posts, id) \cap disk' = {}
                    \/ /\ id \in DOMAIN scheduled_posts'
                       /\ MediaOf(scheduled_posts, id) \subseteq disk'
       /\ \A id \in DOMAIN scheduled_posts' :
            scheduled_posts'[id].status = "pending" =>
                MediaOf(scheduled_posts', id) \subseteq disk']_vars

----------------------------------------------------------------------------
\* Claims about the web client's platform selection (checked under
\* SpecClient).

\* C39: the route a submitted form was sent to, /api/post or /api/scheduled,
\* has decoded its platforms field without an error to the names the user
\* ticked, in the same order.
C39_SelectionDecoded ==
    disp.phase = "decoded" =>
        /\ ~disp.threw
        /\ disp.platforms = [k \in 1..Len(disp.selected) |-> NameText(disp.selected[k])]

====
